---- MODULE Spec2Model ----
(***************************************************************************)
(* Kobo-to-Calibre sync: the matching, conflict-resolution and update      *)
(* pipeline of src/src (book_matcher.py, calibre_updater.py,               *)
(* library_manager.py, sync_engine.py, gui.py) as a state machine.         *)
(*                                                                         *)
(* Strings are sequences of one-character strings, so that the string      *)
(* operations of the code (lower, strip, split, re.sub, replace, title)    *)
(* are computed character by character.                                    *)
(***************************************************************************)
EXTENDS Naturals, Integers, Sequences, FiniteSets, TLC

(***************************************************************************)
(* Bounds of the model.                                                    *)
(***************************************************************************)
\* Longest list of source items the Kobo database holds.
MaxBooks == 3
\* Most libraries whose query fails during one matching pass.
MaxBroken == 1
\* Longest list of shelf names of one book handed to the updater on its own.
MaxTags == 3
\* Most libraries a manager is given by hand on top of a search.
MaxAdded == 1
\* Longest title or author, among the short ones, given to the normalisation.
MaxLen == 5
\* Most threads of the window, running or with their callback still to run, at one time.
MaxThreads == 2
\* Most SyncEngine objects the window makes, one per discovery.
MaxEngines == 2

(***************************************************************************)
(* Python string operations.                                               *)
(***************************************************************************)
UpperChars == <<"A","B","C","D","E","F","G","H","I","J","K","L","M",
                "N","O","P","Q","R","S","T","U","V","W","X","Y","Z">>
LowerChars == <<"a","b","c","d","e","f","g","h","i","j","k","l","m",
                "n","o","p","q","r","s","t","u","v","w","x","y","z">>
DigitChars == {"0","1","2","3","4","5","6","7","8","9"}

Range(s) == {s[i] : i \in DOMAIN s}

UpperSet == Range(UpperChars)
LowerSet == Range(LowerChars)
IsUpper(c) == c \in UpperSet
IsLower(c) == c \in LowerSet
IsAlpha(c) == IsUpper(c) \/ IsLower(c)
\* \s of the re module
IsSpace(c) == c \in {" ", "\t", "\n", "\r"}
\* \w of the re module: letters, digits and the underscore
IsWord(c) == IsAlpha(c) \/ c \in DigitChars \/ c = "_"

LowerChar(c) == IF IsUpper(c) THEN LowerChars[CHOOSE i \in DOMAIN UpperChars : UpperChars[i] = c] ELSE c
UpperChar(c) == IF IsLower(c) THEN UpperChars[CHOOSE i \in DOMAIN LowerChars : LowerChars[i] = c] ELSE c

\* str.lower()
Lower(s) == [i \in DOMAIN s |-> LowerChar(s[i])]

RECURSIVE LStrip(_)
LStrip(s) == IF s # <<>> /\ IsSpace(Head(s)) THEN LStrip(Tail(s)) ELSE s

RECURSIVE RStrip(_)
RStrip(s) == IF s # <<>> /\ IsSpace(s[Len(s)]) THEN RStrip(SubSeq(s, 1, Len(s) - 1)) ELSE s

\* str.strip()
Strip(s) == RStrip(LStrip(s))

\* str.startswith(p)
StartsWith(s, p) == Len(s) >= Len(p) /\ SubSeq(s, 1, Len(p)) = p

\* p in s, for strings
Contains(s, p) == \E i \in 0..(Len(s) - Len(p)) : SubSeq(s, i + 1, i + Len(p)) = p

\* re.sub(r'[^\w\s]', ' ', s)
SubPunct(s) == [i \in DOMAIN s |-> IF IsWord(s[i]) \/ IsSpace(s[i]) THEN s[i] ELSE " "]

\* re.sub(r'\s+', ' ', s)
RECURSIVE SubSpaces(_)
SubSpaces(s) ==
    IF s = <<>> THEN <<>>
    ELSE IF IsSpace(Head(s)) THEN <<" ">> \o SubSpaces(LStrip(s))
    ELSE <<Head(s)>> \o SubSpaces(Tail(s))

\* str.replace(old, ""), leftmost occurrences first, not overlapping
RECURSIVE Remove(_, _)
Remove(s, old) ==
    IF s = <<>> THEN <<>>
    ELSE IF StartsWith(s, old) THEN Remove(SubSeq(s, Len(old) + 1, Len(s)), old)
    ELSE <<Head(s)>> \o Remove(Tail(s), old)

\* str.split(sep) for a one-character separator
RECURSIVE Split(_, _)
Split(s, sep) ==
    IF \A i \in DOMAIN s : s[i] # sep THEN <<s>>
    ELSE LET k == CHOOSE i \in DOMAIN s : s[i] = sep /\ \A j \in 1..(i - 1) : s[j] # sep
         IN  <<SubSeq(s, 1, k - 1)>> \o Split(SubSeq(s, k + 1, Len(s)), sep)

\* str.title(): a letter is upper-cased after a non-letter, lower-cased after a letter
Title(s) == [i \in DOMAIN s |->
               IF i > 1 /\ IsAlpha(s[i - 1]) THEN LowerChar(s[i]) ELSE UpperChar(s[i])]

\* sep.join(parts)
RECURSIVE Join(_, _)
Join(parts, sep) ==
    IF parts = <<>> THEN <<>>
    ELSE IF Len(parts) = 1 THEN parts[1]
    ELSE parts[1] \o sep \o Join(Tail(parts), sep)

(***************************************************************************)
(* book_matcher.py: normalisation.                                         *)
(***************************************************************************)
articles == << <<"t","h","e"," ">>, <<"a"," ">>, <<"a","n"," ">> >>

\* the for/break loop over the articles: the first article that is a prefix is cut
RECURSIVE StripArticle(_, _)
StripArticle(s, arts) ==
    IF arts = <<>> THEN s
    ELSE IF StartsWith(s, Head(arts)) THEN SubSeq(s, Len(Head(arts)) + 1, Len(s))
    ELSE StripArticle(s, Tail(arts))

normalize_title(title) ==
    IF title = <<>> THEN <<>>
    ELSE Strip(StripArticle(SubSpaces(SubPunct(Lower(title))), articles))

\* A normalisation of the author that leaves "Last, First" as it is.
AuthorAsWritten(author) == SubSpaces(Strip(Lower(author)))

normalize_author(author) ==
    IF author = <<>> THEN <<>>
    ELSE LET normalized == SubSpaces(Strip(Lower(author)))
             parts == [i \in DOMAIN Split(normalized, ",") |-> Strip(Split(normalized, ",")[i])]
         IN  IF Contains(normalized, <<",">>) /\ Len(parts) = 2
             THEN parts[2] \o <<" ">> \o parts[1]
             ELSE normalized

(***************************************************************************)
(* The world the program runs in: the directories that hold a Calibre      *)
(* library (a metadata.db) and the books of the Kobo database.             *)
(***************************************************************************)
\* the names of the library directories
Names ==
    [ mcr |-> <<"M","C","R">>,
      books |-> <<"B","o","o","k","s">>,
      fic |-> <<"F","i","c">>,
      my_mcr |-> <<"m","y"," ","m","c","r">> ]

\* the titles of the world, as Calibre and the Kobo hold them
Titles ==
    [ the_cat |-> <<"T","h","e"," ","C","a","t">>,
      cat |-> <<"c","a","t">>,
      a_cat |-> <<"A"," ","C","a","t","!">>,
      the_cat_lower |-> <<"t","h","e"," ","c","a","t">>,
      dog |-> <<"D","o","g">>,
      bird |-> <<"B","i","r","d">>,
      fish |-> <<"F","i","s","h">> ]

\* the authors of the world, in the spellings the two sides use
Authors ==
    [ smith_jane |-> <<"S","m","i","t","h",","," ","J","a","n","e">>,
      jane_smith |-> <<"J","a","n","e"," ","S","m","i","t","h">>,
      jane_smith_spaced |-> <<"j","a","n","e"," "," ","s","m","i","t","h">>,
      jane_smith_upper |-> <<"J","A","N","E"," ","S","M","I","T","H">>,
      doe |-> <<"D","o","e">>,
      roe |-> <<"R","o","e">> ]

\* names of Kobo shelves, as the Kobo database holds them
Shelves ==
    [ evergreen |-> <<"|"," ","e","v","e","r","g","r","e","e","n">>,
      good |-> <<"|"," ","G","o","o","d">>,
      sweet_fluff |-> <<"s","w","e","e","t"," ","f","l","u","f","f">>,
      killjoys |-> <<"k","i","l","l","j","o","y","s">>,
      plain_good |-> <<"G","o","o","d">>,
      great |-> <<"|"," ","G","r","e","a","t">> ]

\* the string literals of the code: the shelf names of the ratings and their clean names
Literals ==
    [ evergreen_raw |-> <<"|"," ","e","v","e","r","g","r","e","e","n">>,
      evergreen |-> <<"E","v","e","r","g","r","e","e","n">>,
      absolute_favorite_raw |-> <<"|"," ","a","b","s","o","l","u","t","e"," ","f","a","v","o","r","i","t","e">>,
      absolute_favorite |-> <<"A","b","s","o","l","u","t","e"," ","F","a","v","o","r","i","t","e">>,
      favorite_raw |-> <<"|"," ","f","a","v","o","r","i","t","e">>,
      favorites |-> <<"F","a","v","o","r","i","t","e","s">>,
      good_raw |-> <<"|"," ","g","o","o","d">>,
      great |-> <<"G","r","e","a","t">> ]

\* The directories a search can find, in the order the search visits them.
StorePaths == <<"p1", "p2", "p3", "p4">>
AllPaths == Range(StorePaths)

\* library_path.name of each directory: p2 and p3 are two locations with one name
StoreName(p) ==
    CASE p = "p1" -> Names.mcr
      [] p = "p2" -> Names.books
      [] p = "p3" -> Names.books
      [] OTHER    -> Names.fic

\* the rows of books joined with authors, in the order the query returns them
StoreRecords(p) ==
    CASE p = "p1" -> << [id |-> 1, title |-> Titles.the_cat, authors |-> Authors.jane_smith] >>
      [] p = "p2" -> << [id |-> 1, title |-> Titles.cat, authors |-> Authors.smith_jane],
                        [id |-> 2, title |-> Titles.dog, authors |-> Authors.doe] >>
      [] p = "p3" -> << [id |-> 7, title |-> Titles.dog, authors |-> Authors.doe],
                        [id |-> 8, title |-> Titles.bird, authors |-> Authors.roe] >>
      [] OTHER    -> << [id |-> 3, title |-> Titles.dog, authors |-> Authors.smith_jane],
                        [id |-> 4, title |-> Titles.a_cat, authors |-> Authors.jane_smith_spaced],
                        [id |-> 5, title |-> Titles.the_cat_lower, authors |-> Authors.jane_smith_upper] >>

\* The rows of the Kobo content table, ORDER BY Title, with their shelf names.
KoboPool ==
    << [content_id |-> "kB", title |-> Titles.bird,   author |-> Authors.roe,       collections |-> <<>>],
       [content_id |-> "kD", title |-> Titles.dog,    author |-> Authors.doe,       collections |-> <<Shelves.killjoys>>],
       [content_id |-> "kF", title |-> Titles.fish,   author |-> Authors.doe,       collections |-> <<Shelves.good>>],
       [content_id |-> "kC", title |-> Titles.the_cat, author |-> Authors.smith_jane, collections |-> <<Shelves.evergreen, Shelves.sweet_fluff>>] >>

\* the rows of the pool whose ContentID is in ids, in the order of the pool
RECURSIVE RowsOf(_, _)
RowsOf(pool, ids) ==
    IF pool = <<>> THEN <<>>
    ELSE (IF Head(pool).content_id \in ids THEN <<Head(pool)>> ELSE <<>>) \o RowsOf(Tail(pool), ids)

KoboIds == {KoboPool[i].content_id : i \in DOMAIN KoboPool}

\* The Kobo databases of the model: the file is missing, or holds at most MaxBooks books.
KoboDatabases ==
    {[exists |-> FALSE, ids |-> {}]}
    \cup {[exists |-> TRUE, ids |-> ids] : ids \in {x \in SUBSET KoboIds : Cardinality(x) <= MaxBooks}}

(***************************************************************************)
(* kobo_reader.py                                                          *)
(***************************************************************************)
\* KoboReader.rating_collections, a dict: its keys and the value of a key
RatingKeys == {Literals.evergreen_raw, Literals.absolute_favorite_raw, Literals.favorite_raw, Literals.good_raw}
rating_collections(k) ==
    CASE k = Literals.evergreen_raw -> Literals.evergreen
      [] k = Literals.absolute_favorite_raw    -> Literals.absolute_favorite
      [] k = Literals.favorite_raw  -> Literals.favorites
      [] OTHER             -> Literals.great

_convert_collections(raw) ==
    [i \in DOMAIN raw |-> IF raw[i] \in RatingKeys THEN rating_collections(raw[i]) ELSE raw[i]]

get_books_with_collections(db) ==
    LET rows == RowsOf(KoboPool, db.ids)
    IN  [i \in DOMAIN rows |-> [rows[i] EXCEPT !.collections = _convert_collections(@)]]

(***************************************************************************)
(* library_manager.py                                                      *)
(***************************************************************************)
CalibreLibrary(p) == [name |-> StoreName(p), path |-> p, is_primary |-> FALSE]

\* the libraries found on the disk, in the order of the search
RECURSIVE FoundLibraries(_, _)
FoundLibraries(paths, disk) ==
    IF paths = <<>> THEN <<>>
    ELSE (IF Head(paths) \in disk THEN <<CalibreLibrary(Head(paths))>> ELSE <<>>)
         \o FoundLibraries(Tail(paths), disk)

IsMcr(library) == Contains(Lower(library.name), <<"m","c","r">>)

\* A search that flags every library whose name holds "mcr".
FlagEveryMcr(lm, found) ==
    [libraries |-> [i \in DOMAIN found |-> [found[i] EXCEPT !.is_primary = IsMcr(found[i])]],
     primary_library |-> IF \E i \in DOMAIN found : IsMcr(found[i])
                         THEN <<[found[CHOOSE i \in DOMAIN found : IsMcr(found[i])]
                                   EXCEPT !.is_primary = TRUE]>>
                         ELSE lm.primary_library]

\* LibraryManager.discover_libraries after the search, found being the
\* libraries of the search: the first library whose name holds "mcr" is
\* flagged primary; primary_library is only assigned when there is one.
FlagPrimary(lm, found) ==
    LET mcr   == {i \in DOMAIN found : IsMcr(found[i])}
        first == CHOOSE i \in mcr : \A j \in mcr : i <= j
        libraries == [i \in DOMAIN found |->
                        IF mcr # {} /\ i = first THEN [found[i] EXCEPT !.is_primary = TRUE]
                        ELSE found[i]]
    IN  [libraries |-> libraries,
         primary_library |-> IF mcr # {} THEN <<libraries[first]>> ELSE lm.primary_library]

\* LibraryManager.discover_libraries: the manager after the call
lm_discover_libraries(lm, disk) == FlagPrimary(lm, FoundLibraries(StorePaths, disk))

\* LibraryManager.add_library: the manager after the call; a path that holds
\* no valid library adds nothing
add_library(lm, name, path, disk) ==
    IF path \notin disk THEN lm
    ELSE [lm EXCEPT !.libraries = Append(@, [CalibreLibrary(path) EXCEPT !.name = name])]

\* Optional[CalibreLibrary] is a sequence of length 0 (None) or 1
get_primary_library(lm) == lm.primary_library

RECURSIVE SelectSecondary(_)
SelectSecondary(libs) ==
    IF libs = <<>> THEN <<>>
    ELSE (IF ~Head(libs).is_primary THEN <<Head(libs)>> ELSE <<>>) \o SelectSecondary(Tail(libs))

get_secondary_libraries(lm) == SelectSecondary(lm.libraries)

(***************************************************************************)
(* book_matcher.py: matching.                                              *)
(***************************************************************************)
BookMatch(kobo_book, book, library) ==
    [kobo_book |-> kobo_book, calibre_book_id |-> book.id, calibre_title |-> book.title,
     calibre_authors |-> book.authors, library |-> library,
     match_confidence |-> 1, match_type |-> "exact"]

\* The titles and authors of the world, normalised once: NormTitle[t] is
\* normalize_title(t) and NormAuthor[a] is normalize_author(a).
WorldTitles ==
    {KoboPool[i].title : i \in DOMAIN KoboPool}
    \cup UNION {{StoreRecords(p)[i].title : i \in DOMAIN StoreRecords(p)} : p \in AllPaths}
WorldAuthors ==
    {KoboPool[i].author : i \in DOMAIN KoboPool}
    \cup UNION {{StoreRecords(p)[i].authors : i \in DOMAIN StoreRecords(p)} : p \in AllPaths}
NormTitle == [t \in WorldTitles |-> normalize_title(t)]
NormAuthor == [a \in WorldAuthors |-> normalize_author(a)]

\* A matcher that compares the titles alone.
TitleOnlyMatch(kobo_book, book) == NormTitle[kobo_book.title] = NormTitle[book.title]

\* the test "kobo_title_norm == calibre_title_norm and kobo_author_norm == calibre_author_norm"
IsExactMatch(kobo_book, book) ==
    /\ NormTitle[kobo_book.title] = NormTitle[book.title]
    /\ NormAuthor[kobo_book.author] = NormAuthor[book.authors]

\* A loop over calibre_books that keeps every row that matches.
RECURSIVE EveryMatch(_, _, _)
EveryMatch(kobo_book, rows, library) ==
    IF rows = <<>> THEN <<>>
    ELSE (IF IsExactMatch(kobo_book, Head(rows)) THEN <<BookMatch(kobo_book, Head(rows), library)>>
          ELSE <<>>) \o EveryMatch(kobo_book, Tail(rows), library)

\* the loop over calibre_books: the first row that matches, or None
RECURSIVE FirstMatch(_, _, _)
FirstMatch(kobo_book, rows, library) ==
    IF rows = <<>> THEN <<>>
    ELSE IF IsExactMatch(kobo_book, Head(rows)) THEN <<BookMatch(kobo_book, Head(rows), library)>>
    ELSE FirstMatch(kobo_book, Tail(rows), library)

\* Optional[BookMatch]: <<>> is None. disk: the libraries whose metadata.db can
\* be read; broken: the libraries whose query raises sqlite3.Error.
find_book_in_library(kobo_book, library, disk, broken) ==
    IF library.path \notin disk \/ library.path \in broken THEN <<>>
    ELSE FirstMatch(kobo_book, StoreRecords(library.path), library)

SecondaryResult(library, match, rest) ==
    [matches |-> match \o rest.matches, queried |-> <<library.path>> \o rest.queried]

\* A loop over the secondary libraries that a failed query ends.
RECURSIVE SearchUntilFailure(_, _, _, _)
SearchUntilFailure(kobo_book, libs, disk, broken) ==
    IF libs = <<>> THEN [matches |-> <<>>, queried |-> <<>>]
    ELSE IF Head(libs).path \in broken THEN [matches |-> <<>>, queried |-> <<Head(libs).path>>]
    ELSE SecondaryResult(Head(libs), find_book_in_library(kobo_book, Head(libs), disk, broken),
                         SearchUntilFailure(kobo_book, Tail(libs), disk, broken))

\* the loop over the secondary libraries
RECURSIVE SearchSecondary(_, _, _, _)
SearchSecondary(kobo_book, libs, disk, broken) ==
    IF libs = <<>> THEN [matches |-> <<>>, queried |-> <<>>]
    ELSE SecondaryResult(Head(libs), find_book_in_library(kobo_book, Head(libs), disk, broken),
                         SearchSecondary(kobo_book, Tail(libs), disk, broken))

\* A search that asks the secondary libraries whatever the primary library answers.
SearchEveryLibrary(kobo_book, lm, disk, broken) ==
    IF get_primary_library(lm) # <<>>
    THEN SecondaryResult(get_primary_library(lm)[1],
                         find_book_in_library(kobo_book, get_primary_library(lm)[1], disk, broken),
                         SearchSecondary(kobo_book, get_secondary_libraries(lm), disk, broken))
    ELSE SearchSecondary(kobo_book, get_secondary_libraries(lm), disk, broken)

\* A search that adds the matches of the secondary libraries to the match of the primary.
PrimaryAmongAll(first, match, rest) ==
    [matches |-> match \o rest.matches, queried |-> first \o rest.queried]

\* what find_book_across_libraries returns, given the answer of the primary
\* library and the answers of the secondary libraries
AcrossResult(first, match, rest) ==
    IF match # <<>> THEN [matches |-> match, queried |-> first]
    ELSE [matches |-> rest.matches, queried |-> first \o rest.queried]

find_book_across_libraries(kobo_book, lm, disk, broken) ==
    IF get_primary_library(lm) # <<>>
    THEN AcrossResult(<<get_primary_library(lm)[1].path>>,
                      find_book_in_library(kobo_book, get_primary_library(lm)[1], disk, broken),
                      SearchSecondary(kobo_book, get_secondary_libraries(lm), disk, broken))
    ELSE AcrossResult(<<>>, <<>>,
                      SearchSecondary(kobo_book, get_secondary_libraries(lm), disk, broken))

BookConflict(kobo_book, matches) == [kobo_book |-> kobo_book, matches |-> matches]

QueryLog(kobo_book, queried) ==
    [i \in DOMAIN queried |-> [item |-> kobo_book.content_id, path |-> queried[i]]]

\* A classification that takes the first of several matches instead of a conflict.
ClassifyFirstOfMany(kobo_book, found, rest) ==
    [successful_matches |->
         (IF found.matches # <<>> THEN <<found.matches[1]>> ELSE <<>>) \o rest.successful_matches,
     unmatched_books |->
         (IF found.matches = <<>> THEN <<kobo_book>> ELSE <<>>) \o rest.unmatched_books,
     conflicts |-> rest.conflicts,
     queries |-> QueryLog(kobo_book, found.queried) \o rest.queries]

\* one turn of the loop of match_all_books: the book goes to one of the three lists
Classify(kobo_book, found, rest) ==
    [successful_matches |->
         (IF Len(found.matches) = 1 THEN <<found.matches[1]>> ELSE <<>>) \o rest.successful_matches,
     unmatched_books |->
         (IF found.matches = <<>> THEN <<kobo_book>> ELSE <<>>) \o rest.unmatched_books,
     conflicts |->
         (IF Len(found.matches) > 1 THEN <<BookConflict(kobo_book, found.matches)>> ELSE <<>>)
         \o rest.conflicts,
     queries |-> QueryLog(kobo_book, found.queried) \o rest.queries]

\* A loop that also reports as unmatched the books that are in conflict.
RECURSIVE MatchAllConflictsUnmatched(_, _, _, _)
MatchAllConflictsUnmatched(kobo_books, lm, disk, broken) ==
    IF kobo_books = <<>>
    THEN [successful_matches |-> <<>>, unmatched_books |-> <<>>, conflicts |-> <<>>, queries |-> <<>>]
    ELSE [Classify(Head(kobo_books),
                   find_book_across_libraries(Head(kobo_books), lm, disk, broken),
                   MatchAllConflictsUnmatched(Tail(kobo_books), lm, disk, broken))
          EXCEPT !.unmatched_books =
                     (IF Len(find_book_across_libraries(Head(kobo_books), lm, disk, broken).matches) > 1
                      THEN <<Head(kobo_books)>> ELSE <<>>) \o @]

\* the loop of match_all_books; queries logs (item, library) for each query made
RECURSIVE match_all_books(_, _, _, _)
match_all_books(kobo_books, lm, disk, broken) ==
    IF kobo_books = <<>>
    THEN [successful_matches |-> <<>>, unmatched_books |-> <<>>, conflicts |-> <<>>, queries |-> <<>>]
    ELSE Classify(Head(kobo_books),
                  find_book_across_libraries(Head(kobo_books), lm, disk, broken),
                  match_all_books(Tail(kobo_books), lm, disk, broken))

(***************************************************************************)
(* calibre_updater.py                                                      *)
(*                                                                         *)
(* The external tool (calibredb), the file copy of the backup and the      *)
(* sqlite reads are the environment. env.store[p] is how library p behaves *)
(* during one bulk update, env.write[<<p, id>>] names the field whose      *)
(* set_metadata call fails for book id of library p ("none": no failure).  *)
(* Every external call made is appended to a log of                        *)
(* [op, path, ok, book, column, value] records.                            *)
(***************************************************************************)
StoreOutcomes == {"ok", "probe_fail", "backup_fail", "check_error", "create_fail"}
\* "locked": the read of custom_columns raises sqlite3.Error and the tool does
\* not answer add_custom_column (timeout), whether the column exists or not.
ColumnOutcomes == StoreOutcomes \cup {"locked"}
WriteOutcomes == {"none", "myratings", "my_genres"}

Call(op, path, ok) == [op |-> op, path |-> path, ok |-> ok, book |-> 0, column |-> "", value |-> <<>>]

\* test_calibredb_connection: calibredb list --limit 1
test_calibredb_connection(library, env) ==
    LET ok == env.store[library.path] # "probe_fail"
    IN  [result |-> ok, calls |-> <<Call("probe", library.path, ok)>>]

\* backup_library: shutil.copy2 of the library's metadata.db
backup_library(library, env) ==
    LET ok == env.store[library.path] # "backup_fail"
    IN  [result |-> ok, calls |-> <<Call("backup", library.path, ok)>>]

\* check_custom_columns: the labels in custom_columns; both False on sqlite3.Error
check_custom_columns(library, cols, env) ==
    IF env.store[library.path] \in {"check_error", "locked"}
    THEN [my_ratings |-> FALSE, my_genres |-> FALSE]
    ELSE [my_ratings |-> "myratings" \in cols[library.path],
          my_genres  |-> "my_genres" \in cols[library.path]]

\* A creation that takes the tool's answer "already exists" for a failure.
CreateStrict(library, column_name, cols, env) ==
    LET p == library.path
        created == column_name \notin cols[p] /\ env.store[p] \notin {"create_fail", "locked"}
    IN  [result |-> created,
         calls |-> <<[Call("add_custom_column", p, created) EXCEPT !.column = column_name]>>,
         cols |-> IF created THEN [cols EXCEPT ![p] = @ \cup {column_name}] ELSE cols]

\* create_custom_column: calibredb add_custom_column. The tool exits non-zero
\* with "already exists" when the label is there, which the code takes as
\* success; a tool that does not answer is a failure.
create_custom_column(library, column_name, cols, env) ==
    LET p == library.path
        exists == column_name \in cols[p]
        created == ~exists /\ env.store[p] \notin {"create_fail", "locked"}
    IN  [result |-> created \/ (exists /\ env.store[p] # "locked"),
         calls |-> <<[Call("add_custom_column", p, created) EXCEPT !.column = column_name]>>,
         cols |-> IF created THEN [cols EXCEPT ![p] = @ \cup {column_name}] ELSE cols]

\* "if not columns[...]: create_custom_column(...)": the call, when the column is missing
CreateIfMissing(missing, library, column_name, cols, env) ==
    IF missing THEN create_custom_column(library, column_name, cols, env)
    ELSE [result |-> TRUE, calls |-> <<>>, cols |-> cols]

EnsureBoth(r1, r2) ==
    [result |-> r1.result /\ r2.result, calls |-> r1.calls \o r2.calls, cols |-> r2.cols]

EnsureGenres(library, columns, r1, env) ==
    EnsureBoth(r1, CreateIfMissing(~columns.my_genres, library, "my_genres", r1.cols, env))

EnsureRatings(library, columns, cols, env) ==
    EnsureGenres(library, columns,
                 CreateIfMissing(~columns.my_ratings, library, "myratings", cols, env), env)

ensure_custom_columns(library, cols, env) ==
    EnsureRatings(library, check_custom_columns(library, cols, env), cols, env)

rating_patterns_list ==
    { Literals.evergreen_raw, Literals.absolute_favorite_raw, Literals.favorite_raw, Literals.good_raw,
      Lower(Literals.evergreen), Lower(Literals.absolute_favorite), Lower(Literals.favorites), Lower(Literals.great),
      <<"f","a","v","o","r","i","t","e">> }
\* [p.lower() for p in rating_patterns]
rating_patterns == {Lower(pat) : pat \in rating_patterns_list}

RatingCleanName(col) ==
    LET clean_name == Title(Remove(Strip(Lower(col)), <<"|"," ">>))
    IN  IF clean_name = <<"F","a","v","o","r","i","t","e">> THEN Literals.favorites
        ELSE IF clean_name = <<"G","o","o","d">> THEN Literals.great
        ELSE clean_name

RECURSIVE _get_rating_collections(_)
_get_rating_collections(collections) ==
    IF collections = <<>> THEN <<>>
    ELSE (IF Strip(Lower(Head(collections))) \in rating_patterns
          THEN <<RatingCleanName(Head(collections))>> ELSE <<>>)
         \o _get_rating_collections(Tail(collections))

GenreExcluded ==
    { Lower(Literals.evergreen), Lower(Literals.absolute_favorite), Lower(Literals.favorites), Lower(Literals.great),
      <<"f","a","v","o","r","i","t","e">>, <<"g","o","o","d">> }

RECURSIVE GenreLoop(_, _)
GenreLoop(collections, rating_patterns_lower) ==
    IF collections = <<>> THEN <<>>
    ELSE LET col_clean == Strip(Remove(Head(collections), <<"|"," ">>))
         IN  (IF Lower(col_clean) \notin rating_patterns_lower /\ Lower(col_clean) \notin GenreExcluded
              THEN <<col_clean>> ELSE <<>>)
             \o GenreLoop(Tail(collections), rating_patterns_lower)

_get_genre_collections(collections) ==
    GenreLoop(collections, {Lower(r) : r \in Range(_get_rating_collections(collections))})

WriteKey(match) == <<match.library.path, match.calibre_book_id>>

\* The collections of the world's books as the updater sees them, classified
\* once: RatingsOf[c] is _get_rating_collections(c), GenresOf[c] is
\* _get_genre_collections(c).
\* The shelf names a book handed to the updater on its own can carry, and the
\* lists of at most MaxTags of them.
TagPool ==
    { Shelves.evergreen, Literals.evergreen, Shelves.good, Shelves.plain_good, Shelves.great,
      Shelves.sweet_fluff, Shelves.killjoys }
TagLists == UNION {[1..n -> TagPool] : n \in 0..MaxTags}

WorldCollections ==
    {_convert_collections(KoboPool[i].collections) : i \in DOMAIN KoboPool} \cup TagLists
RatingsOf == [c \in WorldCollections |-> _get_rating_collections(c)]
GenresOf == [c \in WorldCollections |-> _get_genre_collections(c)]

\* _update_custom_column: calibredb set_metadata --field #column:v1,v2
_update_custom_column(match, column, values, env) ==
    IF values = <<>> THEN [result |-> TRUE, calls |-> <<>>]
    ELSE LET ok == env.write[WriteKey(match)] # column
         IN  [result |-> ok,
              calls |-> <<[Call("set_metadata", match.library.path, ok) EXCEPT
                             !.book = match.calibre_book_id, !.column = column,
                             !.value = Join(values, <<",">>)]>>]

\* "if rating_collections: ..." and "if genre_collections: ...": the write, when there are values
WriteIfAny(match, column, values, env) ==
    IF values # <<>> THEN _update_custom_column(match, column, values, env)
    ELSE [result |-> TRUE, calls |-> <<>>]

\* both writes issued, the result being that of the genres alone
LastWriteDecides(r1, r2) ==
    [result |-> r2.result, calls |-> r1.calls \o r2.calls]

\* both writes issued, the genres first
GenresBeforeRatings(r1, r2) ==
    [result |-> r1.result /\ r2.result, calls |-> r2.calls \o r1.calls]

\* the genres are written only when the write of the ratings did not fail
BookResult(r1, r2) ==
    IF ~r1.result THEN [result |-> FALSE, calls |-> r1.calls]
    ELSE [result |-> r2.result, calls |-> r1.calls \o r2.calls]

update_book_metadata(match, env) ==
    BookResult(WriteIfAny(match, "myratings", RatingsOf[match.kobo_book.collections], env),
               WriteIfAny(match, "my_genres", GenresOf[match.kobo_book.collections], env))

\* the loop left at the first match that failed, the rest counted as failed
AbortBatch(r, rest) ==
    IF r.result
    THEN [successful |-> 1 + rest.successful, failed |-> rest.failed,
          calls |-> r.calls \o rest.calls]
    ELSE [successful |-> 0, failed |-> 1 + rest.successful + rest.failed, calls |-> r.calls]

Counted(r, rest) ==
    [successful |-> (IF r.result THEN 1 ELSE 0) + rest.successful,
     failed |-> (IF r.result THEN 0 ELSE 1) + rest.failed,
     calls |-> r.calls \o rest.calls]

\* the loop "for match in library_matches"
RECURSIVE UpdateEach(_, _)
UpdateEach(library_matches, env) ==
    IF library_matches = <<>> THEN [successful |-> 0, failed |-> 0, calls |-> <<>>]
    ELSE Counted(update_book_metadata(Head(library_matches), env),
                 UpdateEach(Tail(library_matches), env))

\* by_library: the keys in insertion order, and the list of a key
RECURSIVE LibraryNames(_, _)
LibraryNames(matches, seen) ==
    IF matches = <<>> THEN <<>>
    ELSE (IF Head(matches).library.name \in seen THEN <<>> ELSE <<Head(matches).library.name>>)
         \o LibraryNames(Tail(matches), seen \cup {Head(matches).library.name})

RECURSIVE by_library(_, _)
by_library(matches, lib_name) ==
    IF matches = <<>> THEN <<>>
    ELSE (IF Head(matches).library.name = lib_name THEN <<Head(matches)>> ELSE <<>>)
         \o by_library(Tail(matches), lib_name)

\* a library left out counted as one failure
SkippedAsOne(library_matches, calls, cols) ==
    [successful |-> 0, failed |-> 1, updated |-> {}, calls |-> calls, cols |-> cols]

\* the body of the loop "for library_name, library_matches in by_library.items()":
\* "continue" with the whole list counted as failed
Skipped(library_matches, calls, cols) ==
    [successful |-> 0, failed |-> Len(library_matches), updated |-> {}, calls |-> calls, cols |-> cols]

Written(library_name, calls, cols, each) ==
    [successful |-> each.successful, failed |-> each.failed, updated |-> {library_name},
     calls |-> calls \o each.calls, cols |-> cols]

AfterEnsure(library_name, library_matches, env, calls, ensure) ==
    IF ~ensure.result THEN Skipped(library_matches, calls \o ensure.calls, ensure.cols)
    ELSE Written(library_name, calls \o ensure.calls, ensure.cols, UpdateEach(library_matches, env))

AfterBackup(library_name, library_matches, cols, env, calls, backup) ==
    IF ~backup.result THEN Skipped(library_matches, calls \o backup.calls, cols)
    ELSE AfterEnsure(library_name, library_matches, env, calls \o backup.calls,
                     ensure_custom_columns(library_matches[1].library, cols, env))

AfterProbe(library_name, library_matches, cols, env, probe) ==
    IF ~probe.result THEN Skipped(library_matches, probe.calls, cols)
    ELSE AfterBackup(library_name, library_matches, cols, env, probe.calls,
                     backup_library(library_matches[1].library, env))

\* library = library_matches[0].library: the library of the first match of the name
UpdateLibrary(library_name, library_matches, cols, env) ==
    AfterProbe(library_name, library_matches, cols, env,
               test_calibredb_connection(library_matches[1].library, env))

Summed(r, rest) ==
    [successful |-> r.successful + rest.successful, failed |-> r.failed + rest.failed,
     updated |-> r.updated \cup rest.updated, calls |-> r.calls \o rest.calls, cols |-> rest.cols]

RECURSIVE UpdateLibraries(_, _, _, _)
ThenRest(names, matches, env, r) == Summed(r, UpdateLibraries(Tail(names), matches, r.cols, env))

UpdateLibraries(names, matches, cols, env) ==
    IF names = <<>>
    THEN [successful |-> 0, failed |-> 0, updated |-> {}, calls |-> <<>>, cols |-> cols]
    ELSE ThenRest(names, matches, env,
                  UpdateLibrary(Head(names), by_library(matches, Head(names)), cols, env))

Stats(matches, r) ==
    [stats |-> [total |-> Len(matches), successful |-> r.successful, failed |-> r.failed,
                libraries_updated |-> r.updated, dry_run |-> FALSE],
     calls |-> r.calls, cols |-> r.cols]

bulk_update(matches, cols, env) ==
    Stats(matches, UpdateLibraries(LibraryNames(matches, {}), matches, cols, env))

(***************************************************************************)
(* sync_engine.py: each stage maps the engine to the engine after the      *)
(* call, with the exception raised ("" when the call returns), the value   *)
(* returned, the store queries and external calls it made, the custom      *)
(* columns of the libraries after it and the matches handed to the update  *)
(* stage.                                                                  *)
(***************************************************************************)
\* SyncEngine.__init__
NewLibraryManager == [libraries |-> <<>>, primary_library |-> <<>>]
NewSyncEngine ==
    [kobo_reader |-> FALSE, library_manager |-> NewLibraryManager, book_matcher |-> <<>>,
     kobo_books |-> <<>>, libraries |-> <<>>, matches |-> <<>>,
     unmatched_books |-> <<>>, conflicts |-> <<>>]

\* the shape of what a stage hands back
Outcome(eng, raised, ret, queries, calls, cols, updated) ==
    [eng |-> eng, raised |-> raised, ret |-> ret, queries |-> queries, calls |-> calls,
     cols |-> cols, updated |-> updated]

ErrNoLibraries == "No Calibre libraries found in search paths"
ErrNoDatabase  == "Kobo database not found"
ErrNoBooks     == "No books found in Kobo database"
ErrLoadFirst   == "No Kobo books loaded. Call load_kobo_data() first."
ErrDiscoverFirst == "No libraries discovered. Call discover_libraries() first."
ErrMatchFirst  == "No book matches found. Call match_books() first."
ErrNoReader    == "'NoneType' object has no attribute 'rating_collections'"

Raised(eng, raised, cols) == Outcome(eng, raised, <<>>, <<>>, <<>>, cols, <<>>)

Discovered(eng, lm, cols) ==
    Raised([eng EXCEPT !.library_manager = lm, !.libraries = lm.libraries],
           IF lm.libraries = <<>> THEN ErrNoLibraries ELSE "", cols)

discover_libraries(eng, disk, cols) ==
    Discovered(eng, lm_discover_libraries(eng.library_manager, disk), cols)

Loaded(eng, books, cols) ==
    Raised([eng EXCEPT !.kobo_reader = TRUE, !.kobo_books = books],
           IF books = <<>> THEN ErrNoBooks ELSE "", cols)

\* KoboReader.connect raises when the file is missing, before kobo_books is assigned
load_kobo_data(eng, db, cols) ==
    IF ~db.exists THEN Raised([eng EXCEPT !.kobo_reader = TRUE], ErrNoDatabase, cols)
    ELSE Loaded(eng, get_books_with_collections(db), cols)

Matched(eng, r, cols) ==
    Outcome([eng EXCEPT !.book_matcher = <<[unmatched_books |-> r.unmatched_books,
                                            conflicts |-> r.conflicts]>>,
                        !.matches = r.successful_matches,
                        !.unmatched_books = r.unmatched_books,
                        !.conflicts = r.conflicts],
            "", <<>>, r.queries, <<>>, cols, <<>>)

\* A matching stage that does not look at what the earlier stages left.
MatchUnchecked(eng, disk, broken, cols) ==
    Matched(eng, match_all_books(eng.kobo_books, eng.library_manager, disk, broken), cols)

match_books(eng, disk, broken, cols) ==
    IF eng.kobo_books = <<>> THEN Raised(eng, ErrLoadFirst, cols)
    ELSE IF eng.libraries = <<>> THEN Raised(eng, ErrDiscoverFirst, cols)
    ELSE Matched(eng, match_all_books(eng.kobo_books, eng.library_manager, disk, broken), cols)

\* the loop of _simulate_updates reads self.kobo_reader.rating_collections for each match
_simulate_updates(eng, cols) ==
    IF eng.matches # <<>> /\ ~eng.kobo_reader THEN Raised(eng, ErrNoReader, cols)
    ELSE Outcome(eng, "",
                 <<[total |-> Len(eng.matches), successful |-> Len(eng.matches), failed |-> 0,
                    libraries_updated |-> {eng.matches[i].library.name : i \in DOMAIN eng.matches},
                    dry_run |-> TRUE]>>,
                 <<>>, <<>>, cols, eng.matches)

Updated(eng, r) == Outcome(eng, "", <<r.stats>>, <<>>, r.calls, r.cols, eng.matches)

\* An update stage that ignores dry_run.
UpdateForReal(eng, dry_run, cols, env) ==
    IF eng.matches = <<>> THEN Raised(eng, ErrMatchFirst, cols)
    ELSE Updated(eng, bulk_update(eng.matches, cols, env))

update_calibre_metadata(eng, dry_run, cols, env) ==
    IF dry_run THEN _simulate_updates(eng, cols)
    ELSE IF eng.matches = <<>> THEN Raised(eng, ErrMatchFirst, cols)
    ELSE Updated(eng, bulk_update(eng.matches, cols, env))

\* generate_skip_report: the unmatched books that have collections are listed,
\* and a file is written when there is one
\* A report that lists every unmatched book.
EveryUnmatched(books) == books

RECURSIVE WithCollections(_)
WithCollections(books) ==
    IF books = <<>> THEN <<>>
    ELSE (IF Head(books).collections # <<>> THEN <<Head(books)>> ELSE <<>>)
         \o WithCollections(Tail(books))

SkipReport(unmatched_books, books_with_collections) ==
    [listed |-> books_with_collections,
     file_written |-> books_with_collections # <<>>,
     total_unmatched |-> Len(unmatched_books)]

generate_skip_report(book_matcher) ==
    SkipReport(book_matcher.unmatched_books, WithCollections(book_matcher.unmatched_books))

\* "if self.book_matcher:": without a matcher the reports hold the summary alone
generate_reports(eng, cols) ==
    Outcome(eng, "",
            <<[unmatched |-> IF eng.book_matcher # <<>>
                             THEN <<generate_skip_report(eng.book_matcher[1])>> ELSE <<>>,
               summary |-> [libraries |-> Len(eng.libraries), kobo_books |-> Len(eng.kobo_books),
                            matched |-> Len(eng.matches), unmatched |-> Len(eng.unmatched_books)]]>>,
            <<>>, <<>>, cols, <<>>)

apply_conflict_resolutions(eng, resolved_matches) ==
    IF resolved_matches # <<>> THEN [eng EXCEPT !.matches = @ \o resolved_matches] ELSE eng

\* run_sync: the stages in order; an exception of a stage ends the call
Results(s3, s5, s6) ==
    Outcome(s6.eng, "",
            <<[stats |-> s5.ret[1],
               kobo_books_total |-> Len(s6.eng.kobo_books),
               libraries_found |-> Len(s6.eng.libraries),
               unmatched_count |-> Len(s6.eng.unmatched_books),
               conflicts_count |-> Len(s6.eng.conflicts),
               reports |-> s6.ret[1]]>>,
            s3.queries, s5.calls, s5.cols, s5.updated)

AfterUpdate(s3, s5) ==
    IF s5.raised # "" THEN [s5 EXCEPT !.queries = s3.queries]
    ELSE Results(s3, s5, generate_reports(s5.eng, s5.cols))

AfterMatch(s3, dry_run, cols, env) ==
    IF s3.raised # "" THEN s3
    ELSE AfterUpdate(s3, update_calibre_metadata(s3.eng, dry_run, cols, env))

AfterLoad(s2, dry_run, disk, cols, env) ==
    IF s2.raised # "" THEN s2
    ELSE AfterMatch(match_books(s2.eng, disk, env.broken, cols), dry_run, cols, env)

\* A run that goes on to the load after a discovery that raised.
LoadAnyway(s1, dry_run, disk, db, cols, env) ==
    AfterLoad(load_kobo_data(s1.eng, db, cols), dry_run, disk, cols, env)

AfterDiscover(s1, dry_run, disk, db, cols, env) ==
    IF s1.raised # "" THEN s1
    ELSE AfterLoad(load_kobo_data(s1.eng, db, cols), dry_run, disk, cols, env)

run_sync(eng, dry_run, disk, db, cols, env) ==
    IF eng.libraries = <<>>
    THEN AfterDiscover(discover_libraries(eng, disk, cols), dry_run, disk, db, cols, env)
    ELSE AfterDiscover(Raised(eng, "", cols), dry_run, disk, db, cols, env)

(***************************************************************************)
(* gui.py: conflict resolution.                                            *)
(***************************************************************************)
\* What the user answers in the dialog of one conflict: OK with a radio button
\* chosen ("library" with its index, "all", "skip"), OK with none chosen
\* ("none"), or "Skip All Conflicts".
Action(kind, index) == [kind |-> kind, index |-> index]
Answers(conflict) ==
    {Action(k, 0) : k \in {"skip_all", "skip", "none", "all"}}
    \cup {Action("library", i - 1) : i \in DOMAIN conflict.matches}

\* one turn of the loop of _resolve_conflicts, rest being what the later turns add
ResolveOne(conflict, action, rest) ==
    IF action.kind = "skip" \/ action.kind = "none" THEN rest
    ELSE IF action.kind = "all" THEN conflict.matches \o rest
    ELSE <<conflict.matches[action.index + 1]>> \o rest

\* A loop in which "skip all" skips the conflict at hand and goes on.
RECURSIVE ResolveSkippingOne(_, _)
ResolveSkippingOne(conflicts, answers) ==
    IF conflicts = <<>> THEN <<>>
    ELSE ResolveOne(Head(conflicts),
                    IF Head(answers).kind = "skip_all" THEN Action("skip", 0) ELSE Head(answers),
                    ResolveSkippingOne(Tail(conflicts), Tail(answers)))

\* the loop of _resolve_conflicts; answers[i] is the answer to conflicts[i]
RECURSIVE _resolve_conflicts(_, _)
_resolve_conflicts(conflicts, answers) ==
    IF conflicts = <<>> THEN <<>>
    ELSE IF Head(answers).kind = "skip_all" THEN <<>>
    ELSE ResolveOne(Head(conflicts), Head(answers), _resolve_conflicts(Tail(conflicts), Tail(answers)))

\* the dialogs that were shown: up to and including the first "skip all"
RECURSIVE Asked(_)
Asked(answers) ==
    IF answers = <<>> THEN <<>>
    ELSE IF Head(answers).kind = "skip_all" THEN <<Head(answers)>>
    ELSE <<Head(answers)>> \o Asked(Tail(answers))

\* the sequences of answers to a list of conflicts
RECURSIVE AnswerLists(_)
AnswerLists(conflicts) ==
    IF conflicts = <<>> THEN {<<>>}
    ELSE {<<a>> \o rest : a \in Answers(Head(conflicts)), rest \in AnswerLists(Tail(conflicts))}

(***************************************************************************)
(* The state machine.                                                      *)
(***************************************************************************)
VARIABLES
    disk,      \* the directories that hold a valid Calibre library
    kobo_db,   \* the Kobo database: whether the file exists, and its books
    cols,      \* the custom column labels of each library's metadata.db
    engine,    \* the SyncEngine and its components
    gui,       \* KoboSyncGUI: the pending callback, the results shown, the resolution
    last,      \* the call made last: operation, mode, exception, value returned
    queries,   \* the store queries of the call made last
    calls,     \* the external calls (tool, backup copy) of the call made last
    tool       \* how the stores and the external tool behaved during the call made last

vars == <<disk, kobo_db, cols, engine, gui, last, queries, calls, tool>>

RecordIds == UNION {{StoreRecords(p)[i].id : i \in DOMAIN StoreRecords(p)} : p \in AllPaths}
WriteKeys == AllPaths \X RecordIds

\* Nothing fails.
NoFailEnv == [store |-> [p \in AllPaths |-> "ok"], write |-> [k \in WriteKeys |-> "none"], broken |-> {}]

\* The tool behaves the same way for every library and every book.
UniformEnvs ==
    {[store |-> [p \in AllPaths |-> so], write |-> [k \in WriteKeys |-> wo], broken |-> {}] :
        so \in StoreOutcomes, wo \in WriteOutcomes}

\* The tool behaves in any way for each library and each book of the matches.
EnvsOf(matches) ==
    [store : [{matches[i].library.path : i \in DOMAIN matches} -> StoreOutcomes],
     write : [{WriteKey(matches[i]) : i \in DOMAIN matches} -> WriteOutcomes],
     broken : {{}}]

\* The sets of libraries whose query can fail during one matching pass.
BrokenSets == {b \in SUBSET AllPaths : Cardinality(b) <= MaxBroken}

IdleGui == [pc |-> "idle", results |-> <<>>, conflicts |-> <<>>, asked |-> <<>>, resolved |-> <<>>]
NoCall == [op |-> "init", dry_run |-> FALSE, raised |-> "", ret |-> <<>>, updated |-> <<>>]

\* A SyncEngine has been constructed; the disk and the Kobo database are any of the world.
Init ==
    /\ disk \in SUBSET AllPaths
    /\ kobo_db \in KoboDatabases
    /\ cols = [p \in AllPaths |-> {}]
    /\ engine = NewSyncEngine
    /\ gui = IdleGui
    /\ last = NoCall
    /\ queries = <<>>
    /\ calls = <<>>
    /\ tool = <<>>

\* the effect of a call on the state
Took(op, dry_run, r, env) ==
    /\ engine' = r.eng
    /\ cols' = r.cols
    /\ last' = [op |-> op, dry_run |-> dry_run, raised |-> r.raised, ret |-> r.ret,
                updated |-> r.updated]
    /\ queries' = r.queries
    /\ calls' = r.calls
    /\ tool' = <<env>>
    /\ UNCHANGED <<disk, kobo_db>>

(***************************************************************************)
(* Spec: a caller drives the stages of one SyncEngine in any order.        *)
(***************************************************************************)
DiscoverLibraries ==
    /\ Took("discover_libraries", FALSE, discover_libraries(engine, disk, cols), NoFailEnv)
    /\ UNCHANGED gui

LoadKoboData ==
    /\ Took("load_kobo_data", FALSE, load_kobo_data(engine, kobo_db, cols), NoFailEnv)
    /\ UNCHANGED gui

MatchBooks ==
    /\ \E broken \in BrokenSets :
          Took("match_books", FALSE, match_books(engine, disk, broken, cols),
               [NoFailEnv EXCEPT !.broken = broken])
    /\ UNCHANGED gui

UpdateDryRun ==
    /\ Took("update_calibre_metadata", TRUE,
            update_calibre_metadata(engine, TRUE, cols, NoFailEnv), NoFailEnv)
    /\ UNCHANGED gui

UpdateReal ==
    /\ \E env \in UniformEnvs :
          Took("update_calibre_metadata", FALSE,
               update_calibre_metadata(engine, FALSE, cols, env), env)
    /\ UNCHANGED gui

GenerateReports ==
    /\ Took("generate_reports", FALSE, generate_reports(engine, cols), NoFailEnv)
    /\ UNCHANGED gui

Next ==
    \/ DiscoverLibraries
    \/ LoadKoboData
    \/ MatchBooks
    \/ UpdateDryRun
    \/ UpdateReal
    \/ GenerateReports

Spec == Init /\ [][Next]_vars

(***************************************************************************)
(* SpecGui: the window runs whole syncs and resolves their conflicts.      *)
(***************************************************************************)
\* How the tool behaves during the syncs the window starts.
GuiEnvs ==
    { NoFailEnv,
      [NoFailEnv EXCEPT !.store = [p \in AllPaths |-> "probe_fail"]],
      [NoFailEnv EXCEPT !.write = [k \in WriteKeys |-> "myratings"]] }

Started(dry_run, env, r) ==
    /\ Took("run_sync", dry_run, r, env)
    /\ gui' = [IdleGui EXCEPT !.pc = IF r.raised = "" THEN "complete" ELSE "error",
                              !.results = r.ret]

\* _start_sync: run_sync on the background thread, which schedules a callback
StartSync ==
    /\ gui.pc = "idle"
    /\ \E dry_run \in BOOLEAN :
       \E env \in IF dry_run THEN {NoFailEnv} ELSE GuiEnvs :
          Started(dry_run, env, run_sync(engine, dry_run, disk, kobo_db, cols, env))

\* "if resolved_matches:": the matches are applied and the results rewritten
Shown(results, conflicts, resolved_matches) ==
    IF resolved_matches # <<>>
    THEN [results EXCEPT !.stats.total = @ + Len(resolved_matches),
                         !.conflicts_count = Len(conflicts) - Len(resolved_matches)]
    ELSE results

Completed(results, conflicts, answers, resolved_matches) ==
    /\ engine' = apply_conflict_resolutions(engine, resolved_matches)
    /\ gui' = [pc |-> "idle", results |-> <<Shown(results, conflicts, resolved_matches)>>,
               conflicts |-> conflicts, asked |-> Asked(answers), resolved |-> resolved_matches]

\* _on_sync_complete, with the answers the user gives in the conflict dialogs
OnSyncComplete ==
    /\ gui.pc = "complete"
    /\ \E answers \in AnswerLists(IF gui.results[1].conflicts_count > 0
                                  THEN engine.conflicts ELSE <<>>) :
          Completed(gui.results[1], engine.conflicts, answers,
                    IF gui.results[1].conflicts_count > 0
                    THEN _resolve_conflicts(engine.conflicts, answers) ELSE <<>>)
    /\ UNCHANGED <<disk, kobo_db, cols, last, queries, calls, tool>>

\* _on_sync_error
OnSyncError ==
    /\ gui.pc = "error"
    /\ gui' = [gui EXCEPT !.pc = "idle"]
    /\ UNCHANGED <<disk, kobo_db, cols, engine, last, queries, calls, tool>>

NextGui ==
    \/ StartSync
    \/ OnSyncComplete
    \/ OnSyncError

SpecGui == Init /\ [][NextGui]_vars

(***************************************************************************)
(* SpecDialogs: the GUI of SpecGui with _resolve_conflicts taken one       *)
(* dialog at a time. Each dialog is modal (grab_set, wait_window), so      *)
(* nothing else runs between the dialogs of one run.                       *)
(***************************************************************************)
\* _on_sync_complete up to the first dialog: with conflicts to resolve the
\* loop starts, without it the results are shown at once
BeginResolve ==
    /\ gui.pc = "complete"
    /\ IF gui.results[1].conflicts_count > 0
       THEN /\ gui' = [gui EXCEPT !.pc = "dialog", !.conflicts = engine.conflicts]
            /\ UNCHANGED engine
       ELSE Completed(gui.results[1], engine.conflicts, <<>>, <<>>)
    /\ UNCHANGED <<disk, kobo_db, cols, last, queries, calls, tool>>

\* An answer that is recorded over the answer given last.
RecordedOverLast(g, conflict, action) ==
    [g EXCEPT !.asked = (IF @ = <<>> THEN <<>> ELSE SubSeq(@, 1, Len(@) - 1)) \o <<action>>,
              !.resolved = IF action.kind = "skip_all" THEN @
                           ELSE ResolveOne(conflict, action, <<>>)]

\* "Process result": what one answer adds to resolved_matches
Recorded(g, conflict, action) ==
    [g EXCEPT !.asked = @ \o <<action>>,
              !.resolved = IF action.kind = "skip_all" THEN @
                           ELSE @ \o ResolveOne(conflict, action, <<>>)]

\* the loop has conflicts left and was not broken by "skip all"
LoopGoesOn(g) ==
    /\ Len(g.asked) < Len(g.conflicts)
    /\ (IF g.asked = <<>> THEN TRUE ELSE g.asked[Len(g.asked)].kind # "skip_all")

\* one turn of the loop of _resolve_conflicts: the dialog of the next conflict and its answer
AnswerDialog ==
    /\ gui.pc = "dialog"
    /\ LoopGoesOn(gui)
    /\ \E action \in Answers(gui.conflicts[Len(gui.asked) + 1]) :
          gui' = Recorded(gui, gui.conflicts[Len(gui.asked) + 1], action)
    /\ UNCHANGED <<disk, kobo_db, cols, engine, last, queries, calls, tool>>

\* the loop is over: _on_sync_complete applies resolved_matches and shows the results
EndResolve ==
    /\ gui.pc = "dialog"
    /\ ~LoopGoesOn(gui)
    /\ engine' = apply_conflict_resolutions(engine, gui.resolved)
    /\ gui' = [gui EXCEPT !.pc = "idle",
                          !.results = <<Shown(gui.results[1], gui.conflicts, gui.resolved)>>]
    /\ UNCHANGED <<disk, kobo_db, cols, last, queries, calls, tool>>

NextDialogs ==
    \/ StartSync
    \/ BeginResolve
    \/ AnswerDialog
    \/ EndResolve
    \/ OnSyncError

SpecDialogs == Init /\ [][NextDialogs]_vars

(***************************************************************************)
(* SpecLibraries: a LibraryManager on its own; searches and libraries      *)
(* added by hand in any order, the directories named in any way.           *)
(***************************************************************************)
LibraryNames3 == {Names.mcr, Names.my_mcr, Names.books}

\* the libraries of a search of the disk, each directory under the name it has then
Renamed(found, naming) == [i \in DOMAIN found |-> [found[i] EXCEPT !.name = naming[found[i].path]]]

\* p4 holds no library here: a path that add_library refuses
InitLibraries ==
    /\ disk \in SUBSET (AllPaths \ {"p4"})
    /\ kobo_db = [exists |-> FALSE, ids |-> {}]
    /\ cols = [p \in AllPaths |-> {}]
    /\ engine = NewSyncEngine
    /\ gui = IdleGui
    /\ last = NoCall
    /\ queries = <<>>
    /\ calls = <<>>
    /\ tool = <<>>

Managed(op, lm, ret) ==
    /\ engine' = [engine EXCEPT !.library_manager = lm]
    /\ last' = [op |-> op, dry_run |-> FALSE, raised |-> "", ret |-> <<ret>>, updated |-> <<>>]
    /\ UNCHANGED <<disk, kobo_db, cols, gui, queries, calls, tool>>

DiscoverNamed ==
    \E naming \in [disk -> LibraryNames3] :
       Managed("discover_libraries",
               FlagPrimary(engine.library_manager,
                           Renamed(FoundLibraries(StorePaths, disk), naming)),
               Len(FoundLibraries(StorePaths, disk)))

AddLibrary ==
    /\ Len(engine.library_manager.libraries) < Cardinality(disk) + MaxAdded
    /\ \E name \in LibraryNames3 :
       \E path \in AllPaths :
          Managed("add_library", add_library(engine.library_manager, name, path, disk),
                  path \in disk)

NextLibraries ==
    \/ DiscoverNamed
    \/ AddLibrary

SpecLibraries == InitLibraries /\ [][NextLibraries]_vars

(***************************************************************************)
(* SpecNormalize: normalize_title and normalize_author applied to the      *)
(* title and the author of one Kobo book, as find_book_in_library does.    *)
(* The book has any short title and no author, or any short author and no  *)
(* title, or the title and the author of the documented examples.          *)
(***************************************************************************)
Texts(alphabet) == UNION {[1..n -> alphabet] : n \in 0..MaxLen}

TheDesert ==
    <<"T","h","e"," ","D","e","s","e","r","t"," ","H","e","r","e"," ","a","n","d"," ",
      "t","h","e"," ","D","e","s","e","r","t"," ","F","a","r"," ","A","w","a","y">>

\* a SyncEngine that holds the one book
Holding(title, author) ==
    [NewSyncEngine EXCEPT !.kobo_books = <<[content_id |-> "kN", title |-> title,
                                            author |-> author, collections |-> <<>>]>>]

InitNormalize ==
    /\ disk = {}
    /\ kobo_db = [exists |-> TRUE, ids |-> {}]
    /\ cols = [p \in AllPaths |-> {}]
    /\ \/ \E title \in Texts({"T", "h", "e", "a", "n", " ", "_", "!", "7"}) :
             engine = Holding(title, <<>>)
       \/ \E author \in Texts({"S", "j", ",", " "}) : engine = Holding(<<>>, author)
       \/ \E author \in {Authors.smith_jane, Authors.jane_smith} :
             engine = Holding(TheDesert, author)
    /\ gui = IdleGui
    /\ last = NoCall
    /\ queries = <<>>
    /\ calls = <<>>
    /\ tool = <<>>

NormalizeTitle ==
    /\ last' = [op |-> "normalize_title", dry_run |-> FALSE, raised |-> "",
                ret |-> <<normalize_title(engine.kobo_books[1].title)>>, updated |-> <<>>]
    /\ UNCHANGED <<disk, kobo_db, cols, engine, gui, queries, calls, tool>>

NormalizeAuthor ==
    /\ last' = [op |-> "normalize_author", dry_run |-> FALSE, raised |-> "",
                ret |-> <<normalize_author(engine.kobo_books[1].author)>>, updated |-> <<>>]
    /\ UNCHANGED <<disk, kobo_db, cols, engine, gui, queries, calls, tool>>

NextNormalize ==
    \/ NormalizeTitle
    \/ NormalizeAuthor

SpecNormalize == InitNormalize /\ [][NextNormalize]_vars

(***************************************************************************)
(* SpecWindow: the two buttons of the main window, the threads they start  *)
(* and the callbacks the threads schedule with root.after(0, ...).         *)
(* gui holds the widgets: whether each button is enabled, the SyncEngine   *)
(* objects made so far (engines) with self.sync_engine an index into them  *)
(* (0: None), the threads running discovery_task, the modes (dry_run) of   *)
(* the threads running sync_task, and the callbacks waiting in the event   *)
(* queue, each with its arguments.                                         *)
(***************************************************************************)
InitWindow ==
    /\ disk \in SUBSET {"p1", "p2", "p3"}
    /\ kobo_db = [exists |-> TRUE, ids |-> {"kB", "kD"}]
    /\ cols = [p \in AllPaths |-> {}]
    /\ engine = NewSyncEngine
    /\ gui = [discover_btn |-> TRUE, sync_btn |-> FALSE, sync_engine |-> 0, engines |-> <<>>,
              discovering |-> 0, syncing |-> <<>>, pending |-> <<>>]
    /\ last = NoCall
    /\ queries = <<>>
    /\ calls = <<>>
    /\ tool = <<>>

\* the threads that run or whose callback is still to run
Busy(g) == g.discovering + Len(g.syncing) + Len(g.pending)

\* root.after(0, callback, ...): the callback, the results of the run handed
\* to it, and the engine the thread worked on
Scheduled(callback, results, ran_on) ==
    [callback |-> callback, results |-> results, ran_on |-> ran_on]

\* _discover_libraries: the button is disabled and the thread started
ClickDiscover ==
    /\ gui.discover_btn
    /\ Busy(gui) < MaxThreads
    /\ Len(gui.engines) + gui.discovering < MaxEngines
    /\ gui' = [gui EXCEPT !.discover_btn = FALSE, !.discovering = @ + 1]
    /\ UNCHANGED <<disk, kobo_db, cols, engine, last, queries, calls, tool>>

\* discovery_task: a new SyncEngine is assigned to self.sync_engine, and its
\* discover_libraries returns the libraries or raises when there is none
DiscoveryTask ==
    /\ gui.discovering > 0
    /\ gui' = [gui EXCEPT
                  !.discovering = @ - 1,
                  !.engines = Append(@, discover_libraries(NewSyncEngine, disk, cols).eng),
                  !.sync_engine = Len(gui.engines) + 1,
                  !.pending = Append(@, Scheduled(IF disk # {} THEN "_on_discovery_complete"
                                                  ELSE "_on_discovery_error",
                                                  <<>>, Len(gui.engines) + 1))]
    /\ UNCHANGED <<disk, kobo_db, cols, engine, last, queries, calls, tool>>

\* _start_sync: without an engine an error box; else the button is disabled
\* and the thread started (a real sync once the user has confirmed it)
ClickSync ==
    /\ gui.sync_btn
    /\ Busy(gui) < MaxThreads
    /\ \E dry_run \in BOOLEAN :
          gui' = IF gui.sync_engine = 0 THEN gui
                 ELSE [gui EXCEPT !.sync_btn = FALSE, !.syncing = Append(@, dry_run)]
    /\ UNCHANGED <<disk, kobo_db, cols, engine, last, queries, calls, tool>>

\* self.sync_engine.run_sync(dry_run=dry_run) of thread i: the engine is the
\* one self.sync_engine names when the thread gets to run
ThreadRun(g, i) ==
    run_sync(g.engines[g.sync_engine], g.syncing[i], disk, kobo_db, cols, NoFailEnv)

\* the window after thread i has run r and scheduled its callback
ThreadDone(g, i, r) ==
    [g EXCEPT !.syncing = SubSeq(@, 1, i - 1) \o SubSeq(@, i + 1, Len(@)),
              !.engines[g.sync_engine] = r.eng,
              !.pending = Append(@, Scheduled(IF r.raised = "" THEN "_on_sync_complete"
                                              ELSE "_on_sync_error",
                                              r.ret, g.sync_engine))]

\* sync_task: run_sync returns or raises, and the callback is scheduled
SyncTask ==
    /\ \E i \in DOMAIN gui.syncing :
          /\ gui' = ThreadDone(gui, i, ThreadRun(gui, i))
          /\ cols' = ThreadRun(gui, i).cols
          /\ queries' = ThreadRun(gui, i).queries
          /\ calls' = ThreadRun(gui, i).calls
          /\ last' = [op |-> "run_sync", dry_run |-> gui.syncing[i],
                      raised |-> ThreadRun(gui, i).raised,
                      ret |-> ThreadRun(gui, i).ret,
                      updated |-> ThreadRun(gui, i).updated]
    /\ tool' = <<NoFailEnv>>
    /\ UNCHANGED <<disk, kobo_db, engine>>

\* _on_sync_complete, "if conflicts_count > 0 and self.sync_engine": the
\* conflicts handed to _resolve_conflicts are self.sync_engine.conflicts
Offered(g) ==
    IF /\ Head(g.pending).callback = "_on_sync_complete"
       /\ Head(g.pending).results[1].conflicts_count > 0
       /\ g.sync_engine # 0
    THEN g.engines[g.sync_engine].conflicts
    ELSE <<>>

\* the window after the callback scheduled first: _on_discovery_complete
\* enables both buttons (the libraries are not empty), _on_discovery_error
\* the discovery button, _on_sync_complete and _on_sync_error the sync
\* button; _on_sync_complete applies the resolved matches to self.sync_engine
CallbackDone(g, resolved_matches) ==
    [g EXCEPT
        !.pending = Tail(@),
        !.discover_btn = @ \/ Head(g.pending).callback \in {"_on_discovery_complete",
                                                           "_on_discovery_error"},
        !.sync_btn = @ \/ Head(g.pending).callback \in {"_on_discovery_complete",
                                                       "_on_sync_complete", "_on_sync_error"},
        !.engines = IF resolved_matches = <<>> THEN @
                    ELSE [@ EXCEPT ![g.sync_engine] =
                             apply_conflict_resolutions(@, resolved_matches)]]

\* the event loop runs the callback scheduled first, with the answers the
\* user gives in the conflict dialogs of _on_sync_complete
RunCallback ==
    /\ gui.pending # <<>>
    /\ \E answers \in AnswerLists(Offered(gui)) :
          /\ gui' = CallbackDone(gui, _resolve_conflicts(Offered(gui), answers))
          /\ last' = [op |-> Head(gui.pending).callback, dry_run |-> FALSE, raised |-> "",
                      ret |-> <<[ran_on |-> Head(gui.pending).ran_on,
                                 sync_engine |-> gui.sync_engine,
                                 results |-> Head(gui.pending).results,
                                 conflicts |-> Offered(gui),
                                 asked |-> Asked(answers)]>>,
                      updated |-> _resolve_conflicts(Offered(gui), answers)]
    /\ UNCHANGED <<disk, kobo_db, cols, engine, queries, calls, tool>>

NextWindow ==
    \/ ClickDiscover
    \/ DiscoveryTask
    \/ ClickSync
    \/ SyncTask
    \/ RunCallback

SpecWindow == InitWindow /\ [][NextWindow]_vars

(***************************************************************************)
(* SpecUpdate: the stages before the update in any order, and after a      *)
(* matching pass a real update, as in run_sync, during which each library  *)
(* and each book of the matches may fail on its own.                       *)
(***************************************************************************)
UpdateAny ==
    /\ last.op = "match_books"
    /\ \E env \in EnvsOf(engine.matches) :
          Took("update_calibre_metadata", FALSE,
               update_calibre_metadata(engine, FALSE, cols, env), env)
    /\ UNCHANGED gui

NextUpdate ==
    \/ DiscoverLibraries
    \/ LoadKoboData
    \/ MatchBooks
    \/ UpdateAny

SpecUpdate == Init /\ [][NextUpdate]_vars

(***************************************************************************)
(* Properties of the matching pass.                                        *)
(*                                                                         *)
(* After match_books the state holds its input (engine.kobo_books, the     *)
(* libraries of engine.library_manager, disk, the libraries whose query    *)
(* failed) next to its output (the three lists and the log of queries).    *)
(***************************************************************************)
Matching == last.op = "match_books" /\ last.raised = ""

Primary == get_primary_library(engine.library_manager)
Secondary == get_secondary_libraries(engine.library_manager)

\* what find_book_in_library answers for the primary library: <<>> or <<match>>
PrimaryMatch(kobo_book) ==
    IF Primary = <<>> THEN <<>>
    ELSE find_book_in_library(kobo_book, Primary[1], disk, tool[1].broken)

\* the secondary libraries in which find_book_in_library finds the book
SecondaryHits(kobo_book) ==
    {i \in DOMAIN Secondary :
        find_book_in_library(kobo_book, Secondary[i], disk, tool[1].broken) # <<>>}

MatchesOf(kobo_book) == SelectSeq(engine.matches, LAMBDA m : m.kobo_book = kobo_book)
ConflictsOf(kobo_book) == SelectSeq(engine.conflicts, LAMBDA c : c.kobo_book = kobo_book)
UnmatchedOf(kobo_book) == SelectSeq(engine.unmatched_books, LAMBDA b : b = kobo_book)
QueriesFor(kobo_book) == SelectSeq(queries, LAMBDA q : q.item = kobo_book.content_id)

\* every match the engine holds, in the matched list or inside a conflict
AllMatches ==
    Range(engine.matches)
    \cup UNION {Range(engine.conflicts[i].matches) : i \in DOMAIN engine.conflicts}

Mutating == {"add_custom_column", "set_metadata"}

\* the real bulk updates that returned statistics
RealUpdate == last.op = "update_calibre_metadata" /\ ~last.dry_run /\ last.raised = ""

\* C1: in a real bulk update, every mutating call (add custom column, set
\* field value) on a library comes after a successful backup of that same
\* library in the same invocation; and when the backup of a library fails, no
\* mutating call is made on it and all its matches are counted as failed.
C1_BackupBeforeMutation ==
    RealUpdate =>
        /\ \A j \in DOMAIN calls :
              calls[j].op \in Mutating =>
                 \E i \in 1..(j - 1) :
                    calls[i].op = "backup" /\ calls[i].ok /\ calls[i].path = calls[j].path
        /\ \A i \in DOMAIN calls :
              (calls[i].op = "backup" /\ ~calls[i].ok) =>
                 /\ \A j \in DOMAIN calls :
                       calls[j].op \in Mutating => calls[j].path # calls[i].path
                 /\ last.ret[1].failed >=
                       Cardinality({k \in DOMAIN engine.matches :
                                       engine.matches[k].library.path = calls[i].path})

\* A real update in which nothing fails writes to a library that was never backed up.
C1_Witness ==
    /\ RealUpdate
    /\ \A i \in DOMAIN calls : calls[i].ok
    /\ \E j \in DOMAIN calls :
          /\ calls[j].op = "set_metadata"
          /\ \A i \in DOMAIN calls : calls[i].op = "backup" => calls[i].path # calls[j].path

\* C2: when find_book_in_library finds a book in the primary library, the
\* book gets exactly that one match, and the primary library is the only
\* library queried for it, even when secondary libraries hold a matching record.
C2_PrimaryShortCircuit ==
    Matching =>
        \A i \in DOMAIN engine.kobo_books :
           PrimaryMatch(engine.kobo_books[i]) # <<>> =>
              /\ MatchesOf(engine.kobo_books[i]) = PrimaryMatch(engine.kobo_books[i])
              /\ ConflictsOf(engine.kobo_books[i]) = <<>>
              /\ UnmatchedOf(engine.kobo_books[i]) = <<>>
              /\ QueriesFor(engine.kobo_books[i]) =
                    <<[item |-> engine.kobo_books[i].content_id, path |-> Primary[1].path]>>

\* A book found in the primary library that a secondary library holds too.
C2_Witness ==
    /\ Matching
    /\ \E i \in DOMAIN engine.kobo_books :
          /\ PrimaryMatch(engine.kobo_books[i]) # <<>>
          /\ SecondaryHits(engine.kobo_books[i]) # {}

\* C3: match_all_books makes a conflict for a book if and only if the book
\* has no match in the primary library and matches in two or more secondary
\* libraries; a book with a match in exactly one secondary library and none
\* in the primary goes to the matched list as that single match.
C3_ConflictIff ==
    Matching =>
        \A i \in DOMAIN engine.kobo_books :
           /\ (ConflictsOf(engine.kobo_books[i]) # <<>>) <=>
                 (/\ PrimaryMatch(engine.kobo_books[i]) = <<>>
                  /\ Cardinality(SecondaryHits(engine.kobo_books[i])) >= 2)
           /\ (/\ PrimaryMatch(engine.kobo_books[i]) = <<>>
               /\ Cardinality(SecondaryHits(engine.kobo_books[i])) = 1) =>
                 /\ ConflictsOf(engine.kobo_books[i]) = <<>>
                 /\ Len(MatchesOf(engine.kobo_books[i])) = 1
                 /\ \A h \in SecondaryHits(engine.kobo_books[i]) :
                       MatchesOf(engine.kobo_books[i]) =
                          find_book_in_library(engine.kobo_books[i], Secondary[h], disk,
                                               tool[1].broken)

\* One book in conflict between two secondary libraries, another found in one alone.
C3_Witness ==
    /\ Matching
    /\ \E i, j \in DOMAIN engine.kobo_books :
          /\ PrimaryMatch(engine.kobo_books[i]) = <<>>
          /\ Cardinality(SecondaryHits(engine.kobo_books[i])) >= 2
          /\ ConflictsOf(engine.kobo_books[i]) # <<>>
          /\ PrimaryMatch(engine.kobo_books[j]) = <<>>
          /\ Cardinality(SecondaryHits(engine.kobo_books[j])) = 1
          /\ MatchesOf(engine.kobo_books[j]) # <<>>

\* C4: every match is between a book and a record of its library whose
\* normalized titles are equal and whose normalized authors are equal, and
\* its kind is 'exact'; agreement on the title alone gives no match.
C4_ExactAfterNormalization ==
    \A m \in AllMatches :
       /\ \E k \in DOMAIN StoreRecords(m.library.path) :
             /\ StoreRecords(m.library.path)[k].id = m.calibre_book_id
             /\ StoreRecords(m.library.path)[k].title = m.calibre_title
             /\ StoreRecords(m.library.path)[k].authors = m.calibre_authors
       /\ normalize_title(m.kobo_book.title) = normalize_title(m.calibre_title)
       /\ normalize_author(m.kobo_book.author) = normalize_author(m.calibre_authors)
       /\ m.match_type = "exact"

\* A match whose titles differ before normalization, next to an unmatched
\* book for which a queried library holds a record with the same normalized
\* title and another author.
C4_Witness ==
    /\ Matching
    /\ \E m \in Range(engine.matches) : m.kobo_book.title # m.calibre_title
    /\ \E i \in DOMAIN engine.unmatched_books :
       \E q \in Range(QueriesFor(engine.unmatched_books[i])) :
       \E k \in DOMAIN StoreRecords(q.path) :
          /\ q.path \in disk \ tool[1].broken
          /\ normalize_title(StoreRecords(q.path)[k].title) =
                normalize_title(engine.unmatched_books[i].title)
          /\ normalize_author(StoreRecords(q.path)[k].authors) #
                normalize_author(engine.unmatched_books[i].author)

\* C5: match_all_books partitions its input: every book is in exactly one of
\* matched, unmatched and conflicts, and the three lengths add up to the
\* number of books.
C5_Partition ==
    Matching =>
        /\ Len(engine.matches) + Len(engine.unmatched_books) + Len(engine.conflicts)
              = Len(engine.kobo_books)
        /\ \A i \in DOMAIN engine.kobo_books :
              Len(MatchesOf(engine.kobo_books[i])) + Len(UnmatchedOf(engine.kobo_books[i]))
                 + Len(ConflictsOf(engine.kobo_books[i])) = 1
        /\ \A m \in Range(engine.matches) : m.kobo_book \in Range(engine.kobo_books)
        /\ \A b \in Range(engine.unmatched_books) : b \in Range(engine.kobo_books)
        /\ \A c \in Range(engine.conflicts) : c.kobo_book \in Range(engine.kobo_books)

\* A pass over three books that fills each of the three lists.
C5_Witness ==
    /\ Matching
    /\ Len(engine.kobo_books) = 3
    /\ engine.matches # <<>>
    /\ engine.unmatched_books # <<>>
    /\ engine.conflicts # <<>>

(***************************************************************************)
(* Properties of the update stage.                                         *)
(***************************************************************************)
NotOf(matches, p) == SelectSeq(matches, LAMBDA m : m.library.path # p)
CallsNotOn(log, p) == SelectSeq(log, LAMBDA c : c.path # p)

\* the libraries whose connectivity probe failed in a log of calls
FailedProbes(log) == {log[i].path : i \in {j \in DOMAIN log : log[j].op = "probe" /\ ~log[j].ok}}

\* C6: in a real bulk update, when the probe of a library fails, the only
\* call on that library is the probe, all its matches are counted as failed,
\* and the other libraries are processed exactly as in a bulk update of the
\* matches without that library: same calls, same successes, same failures.
C6_ProbeFailureIsolated ==
    [][(last'.op = "update_calibre_metadata" /\ ~last'.dry_run /\ last'.raised = "") =>
          \A p \in FailedProbes(calls') :
             /\ \A j \in DOMAIN calls' : calls'[j].path = p => calls'[j].op = "probe"
             /\ CallsNotOn(calls', p) = bulk_update(NotOf(engine.matches, p), cols, tool'[1]).calls
             /\ last'.ret[1].successful =
                   bulk_update(NotOf(engine.matches, p), cols, tool'[1]).stats.successful
             /\ last'.ret[1].failed =
                   bulk_update(NotOf(engine.matches, p), cols, tool'[1]).stats.failed
                      + Len(engine.matches) - Len(NotOf(engine.matches, p))
      ]_vars

\* The probe of one library fails and a reachable library with a match gets no call at all.
C6_Witness ==
    /\ RealUpdate
    /\ \E p \in FailedProbes(calls) :
       \E m \in Range(engine.matches) :
          /\ m.library.path # p
          /\ tool[1].store[m.library.path] = "ok"
          /\ \A j \in DOMAIN calls : calls[j].path # m.library.path

\* C7: update_calibre_metadata(dry_run=True) over N matches returns
\* total = N, successful = N, failed = 0, makes no backup and no mutating
\* call, and leaves the custom columns of every library as they were.
C7_DryRun ==
    [][(last'.op = "update_calibre_metadata" /\ last'.dry_run) =>
          /\ last'.raised = ""
          /\ last'.ret[1].total = Len(engine.matches)
          /\ last'.ret[1].successful = Len(engine.matches)
          /\ last'.ret[1].failed = 0
          /\ last'.ret[1].dry_run
          /\ \A j \in DOMAIN calls' : calls'[j].op \notin Mutating \cup {"backup"}
          /\ cols' = cols
          /\ engine' = engine
      ]_vars

\* A dry run over two matches or more.
C7_Witness ==
    /\ last.op = "update_calibre_metadata"
    /\ last.dry_run
    /\ Len(engine.matches) >= 2
    /\ last.ret[1].successful = Len(engine.matches)

(***************************************************************************)
(* Properties of the conflict resolution of the window.                    *)
(***************************************************************************)
\* C8: every match selected by conflict resolution is in the matched set
\* and among the matches the update stage of that run processed.
C8_ResolvedReachUpdate ==
    \A m \in Range(gui.resolved) :
       /\ m \in Range(engine.matches)
       /\ m \in Range(last.updated)

\* A match was selected, and the update stage of the run had not been given it.
C8_Witness ==
    /\ gui.pc = "idle"
    /\ last.op = "run_sync"
    /\ ~last.dry_run
    /\ \E m \in Range(gui.resolved) : m \in Range(engine.matches) /\ m \notin Range(last.updated)

\* what one answer selects from its conflict
Selected(conflict, action) ==
    IF action.kind = "all" THEN conflict.matches
    ELSE IF action.kind = "library" THEN <<conflict.matches[action.index + 1]>>
    ELSE <<>>

\* what the first n answers given select, in order
RECURSIVE SelectedByFirst(_)
SelectedByFirst(n) ==
    IF n = 0 THEN <<>>
    ELSE SelectedByFirst(n - 1) \o Selected(gui.conflicts[n], gui.asked[n])

\* C9: when a conflict is answered 'skip all', no later dialog is shown, no
\* match of that conflict or of a later one is in the resolved set, in the
\* matched set or among the matches the update stage processed, and the
\* resolved set is what the earlier answers selected, all of it in the
\* matched set.
C9_SkipAll ==
    \A k \in DOMAIN gui.asked :
       gui.asked[k].kind = "skip_all" =>
          /\ k = Len(gui.asked)
          /\ \A j \in k..Len(gui.conflicts) :
             \A m \in Range(gui.conflicts[j].matches) :
                /\ m \notin Range(gui.resolved)
                /\ m \notin Range(engine.matches)
                /\ m \notin Range(last.updated)
          /\ gui.resolved = SelectedByFirst(k - 1)
          /\ \A m \in Range(gui.resolved) : m \in Range(engine.matches)

\* A selection for the first conflict, then 'skip all' with conflicts left.
C9_Witness ==
    /\ Len(gui.conflicts) >= 2
    /\ Len(gui.asked) >= 2
    /\ gui.asked[1].kind \in {"all", "library"}
    /\ gui.asked[Len(gui.asked)].kind = "skip_all"
    /\ gui.resolved # <<>>

(***************************************************************************)
(* Properties of the order of the stages.                                  *)
(***************************************************************************)
PreconditionErrors == {ErrLoadFirst, ErrDiscoverFirst, ErrMatchFirst}

C11_FatalOnlyWithoutStores ==
    last.op = "run_sync" =>
        /\ last.raised # "" => (~kobo_db.exists \/ engine.libraries = <<>>)
        /\ last.raised = "" =>
              /\ last.ret[1].stats.total = Len(last.updated)
              /\ last.ret[1].stats.successful + last.ret[1].stats.failed
                    = last.ret[1].stats.total

\* A real run with libraries and loaded books, none of which is found in a
\* library, ends with the error of the update stage.
C11_Witness ==
    /\ last.op = "run_sync"
    /\ ~last.dry_run
    /\ last.raised = ErrMatchFirst
    /\ kobo_db.exists
    /\ engine.libraries # <<>>
    /\ engine.unmatched_books # <<>>
    /\ engine.conflicts = <<>>

(***************************************************************************)
(* SpecColumns: ensure_custom_columns called again and again on libraries  *)
(* that hold any of the two columns at the start, the tool and the         *)
(* database behaving in any way at each call.                              *)
(***************************************************************************)
InitColumns ==
    /\ disk = AllPaths
    /\ kobo_db = [exists |-> FALSE, ids |-> {}]
    /\ cols \in [AllPaths -> SUBSET {"myratings", "my_genres"}]
    /\ engine = NewSyncEngine
    /\ gui = IdleGui
    /\ last = NoCall
    /\ queries = <<>>
    /\ calls = <<>>
    /\ tool = <<>>

Ensured(p, env, r) ==
    /\ cols' = r.cols
    /\ calls' = r.calls
    /\ last' = [op |-> "ensure_custom_columns", dry_run |-> FALSE, raised |-> "",
                ret |-> <<[path |-> p, result |-> r.result]>>, updated |-> <<>>]
    /\ tool' = <<env>>

EnsureColumns ==
    /\ \E p \in AllPaths, outcome \in ColumnOutcomes :
          Ensured(p, [NoFailEnv EXCEPT !.store[p] = outcome],
                  ensure_custom_columns(CalibreLibrary(p), cols,
                                        [NoFailEnv EXCEPT !.store[p] = outcome]))
    /\ UNCHANGED <<disk, kobo_db, engine, gui, queries>>

NextColumns == EnsureColumns

SpecColumns == InitColumns /\ [][NextColumns]_vars

\* two calls of ensure_custom_columns in a row on the same library
EnsuredTwice ==
    /\ last.op = "ensure_custom_columns"
    /\ last'.op = "ensure_custom_columns"
    /\ last'.ret[1].path = last.ret[1].path

TagMatch(tags) ==
    BookMatch([content_id |-> "kT", title |-> Titles.the_cat, author |-> Authors.jane_smith,
               collections |-> tags],
              StoreRecords("p1")[1], CalibreLibrary("p1"))

InitTags ==
    /\ disk = {"p1"}
    /\ kobo_db = [exists |-> TRUE, ids |-> {}]
    /\ cols = [p \in AllPaths |-> {"myratings", "my_genres"}]
    /\ \E tags \in TagLists : engine = [NewSyncEngine EXCEPT !.matches = <<TagMatch(tags)>>]
    /\ gui = IdleGui
    /\ last = NoCall
    /\ queries = <<>>
    /\ calls = <<>>
    /\ tool = <<>>

\* the first two statements of update_book_metadata
ClassifyLabels ==
    /\ last' = [op |-> "classify", dry_run |-> FALSE, raised |-> "",
                ret |-> <<[ratings |-> _get_rating_collections(
                                          engine.matches[1].kobo_book.collections),
                           genres |-> _get_genre_collections(
                                          engine.matches[1].kobo_book.collections)]>>,
                updated |-> <<>>]
    /\ calls' = <<>>
    /\ tool' = <<NoFailEnv>>
    /\ UNCHANGED <<disk, kobo_db, cols, engine, gui, queries>>

BookUpdated(match, env, r) ==
    /\ last' = [op |-> "update_book_metadata", dry_run |-> FALSE, raised |-> "",
                ret |-> <<r.result>>, updated |-> <<match>>]
    /\ calls' = r.calls
    /\ tool' = <<env>>

UpdateBook ==
    /\ \E outcome \in WriteOutcomes :
          BookUpdated(engine.matches[1],
                      [NoFailEnv EXCEPT !.write[WriteKey(engine.matches[1])] = outcome],
                      update_book_metadata(
                          engine.matches[1],
                          [NoFailEnv EXCEPT !.write[WriteKey(engine.matches[1])] = outcome]))
    /\ UNCHANGED <<disk, kobo_db, cols, engine, gui, queries>>

NextTags ==
    \/ ClassifyLabels
    \/ UpdateBook

SpecTags == InitTags /\ [][NextTags]_vars

(***************************************************************************)
(* Properties of the classification of the shelf names.                    *)
(***************************************************************************)
Tags == engine.matches[1].kobo_book.collections

\* the label at position i passes the test of _get_rating_collections
InRatings(i) == _get_rating_collections(<<Tags[i]>>) # <<>>

\* the label at position i passes the test of _get_genre_collections, given
\* the rating names of the whole list
InGenres(i) ==
    GenreLoop(<<Tags[i]>>, {Lower(r) : r \in Range(_get_rating_collections(Tags))}) # <<>>

\* C13: every label of a list is classified into exactly one of the two
\* sets: it contributes to the ratings or to the genres, never to both and
\* never to neither.
C13_ExactlyOnePartition ==
    last.op = "classify" =>
        /\ \A i \in DOMAIN Tags : InRatings(i) # InGenres(i)
        /\ Len(last.ret[1].ratings) + Len(last.ret[1].genres) = Len(Tags)

\* A shelf named "Good" on its own: no rating and no genre.
C13_Witness ==
    /\ last.op = "classify"
    /\ Tags = <<Shelves.plain_good>>
    /\ last.ret[1].ratings = <<>>
    /\ last.ret[1].genres = <<>>

\* The labels of TagPool that name a rating, with the canonical name of each,
\* and the labels that name no rating and resemble none.
CanonicalRating ==
    [t \in {Shelves.evergreen, Literals.evergreen, Shelves.good} |->
        IF t = Shelves.good THEN Literals.great ELSE Literals.evergreen]
OtherLabels == {Shelves.sweet_fluff, Shelves.killjoys}

Keep(seq, S) == SelectSeq(seq, LAMBDA t : t \in S)
ExpectedRatings == [i \in DOMAIN Keep(Tags, DOMAIN CanonicalRating) |->
                       CanonicalRating[Keep(Tags, DOMAIN CanonicalRating)[i]]]
ExpectedGenres == Keep(Tags, OtherLabels)

FieldWrite(column, values, ok) ==
    [op |-> "set_metadata", path |-> "p1", ok |-> ok, book |-> StoreRecords("p1")[1].id,
     column |-> column, value |-> Join(values, <<",">>)]

RatingsWriteFails == tool[1].write[WriteKey(engine.matches[1])] = "myratings"
GenresWriteFails == tool[1].write[WriteKey(engine.matches[1])] = "my_genres"

TheExample == <<Literals.evergreen, Shelves.sweet_fluff, Shelves.killjoys>>

WritesOf(column) == SelectSeq(calls, LAMBDA c : c.column = column)
Succeeded(column) == \E i \in DOMAIN calls : calls[i].column = column /\ calls[i].ok

\* C15: update_book_metadata reports success exactly when the write of each
\* non-empty label set succeeded; an empty set issues no call, so a match
\* with no rating and no genre succeeds with no call at all.
C15_SuccessIffWritesSucceed ==
    last.op = "update_book_metadata" =>
        /\ last.ret[1] <=>
              /\ _get_rating_collections(Tags) # <<>> => Succeeded("myratings")
              /\ _get_genre_collections(Tags) # <<>> => Succeeded("my_genres")
        /\ _get_rating_collections(Tags) = <<>> => WritesOf("myratings") = <<>>
        /\ _get_genre_collections(Tags) = <<>> => WritesOf("my_genres") = <<>>
        /\ \A i \in DOMAIN calls : calls[i].op = "set_metadata"
        /\ (_get_rating_collections(Tags) = <<>> /\ _get_genre_collections(Tags) = <<>>) =>
              last.ret[1] /\ calls = <<>>

\* A book with shelves but neither rating nor genre, the tool failing every
\* write of ratings: success with no call.
C15_Witness ==
    /\ last.op = "update_book_metadata"
    /\ Tags = <<Shelves.plain_good, Shelves.great>>
    /\ RatingsWriteFails
    /\ last.ret[1]
    /\ calls = <<>>

C15_WitnessFailure ==
    /\ last.op = "update_book_metadata"
    /\ Tags = <<Shelves.killjoys>>
    /\ GenresWriteFails
    /\ ~last.ret[1]
    /\ Len(calls) = 1

(***************************************************************************)
(* Properties of the batches of a real bulk update.                        *)
(***************************************************************************)
\* the batch of the match ran: its library name is among libraries_updated
BatchRan(m) == m.library.name \in last.ret[1].libraries_updated

WritesFor(m) ==
    {j \in DOMAIN calls : /\ calls[j].op = "set_metadata"
                          /\ calls[j].path = m.library.path
                          /\ calls[j].book = m.calibre_book_id}
FailedWrite(m) == \E j \in WritesFor(m) : ~calls[j].ok
HasLabels(m) == RatingsOf[m.kobo_book.collections] # <<>> \/ GenresOf[m.kobo_book.collections] # <<>>

\* the library object of a batch: that of the first match of the name
FirstOfName(name) ==
    engine.matches[CHOOSE i \in DOMAIN engine.matches :
                      /\ engine.matches[i].library.name = name
                      /\ \A k \in 1..(i - 1) : engine.matches[k].library.name # name].library

MatchIndexes(P(_)) == {k \in DOMAIN engine.matches : P(engine.matches[k])}

\* C16: in a real bulk update a failed field write makes only its own match
\* count as failed: every match of a batch that ran is attempted whatever
\* happened to the matches before it, the failed matches are those of the
\* batches that did not run and those with a failed write, every batch is
\* attempted (its library is probed), and no call touches again a field
\* that was written successfully.
C16_WriteFailureIsolated ==
    RealUpdate =>
        /\ \A k \in DOMAIN engine.matches :
              (BatchRan(engine.matches[k]) /\ HasLabels(engine.matches[k])) =>
                  WritesFor(engine.matches[k]) # {}
        /\ last.ret[1].failed =
              Cardinality(MatchIndexes(LAMBDA m : ~BatchRan(m)))
                 + Cardinality(MatchIndexes(LAMBDA m : BatchRan(m) /\ FailedWrite(m)))
        /\ last.ret[1].successful =
              Cardinality(MatchIndexes(LAMBDA m : BatchRan(m) /\ ~FailedWrite(m)))
        /\ \A k \in DOMAIN engine.matches :
              \E j \in DOMAIN calls :
                 /\ calls[j].op = "probe"
                 /\ calls[j].path = FirstOfName(engine.matches[k].library.name).path
        /\ \A i \in DOMAIN calls :
              (calls[i].op = "set_metadata" /\ calls[i].ok) =>
                 \A j \in (i + 1)..Len(calls) :
                    ~(/\ calls[j].path = calls[i].path
                      /\ calls[j].book = calls[i].book
                      /\ calls[j].column = calls[i].column)

\* The write of one match fails and the next match of the same batch is
\* written all the same, both of its fields.
C16_Witness ==
    /\ RealUpdate
    /\ \E j, k, l \in DOMAIN calls :
          /\ j < k /\ k < l
          /\ calls[j].op = "set_metadata" /\ ~calls[j].ok
          /\ calls[k].op = "set_metadata" /\ calls[k].ok
          /\ calls[l].op = "set_metadata" /\ calls[l].ok
          /\ calls[k].path = calls[j].path /\ calls[k].book # calls[j].book
          /\ calls[l].path = calls[j].path /\ calls[l].book = calls[k].book
    /\ last.ret[1].failed = 1
    /\ last.ret[1].successful = 1

\* A write fails in one library and a later library is written all the same.
C16_WitnessLaterStore ==
    /\ RealUpdate
    /\ \E j, l \in DOMAIN calls :
          /\ j < l
          /\ calls[j].op = "set_metadata" /\ ~calls[j].ok
          /\ calls[l].op = "set_metadata" /\ calls[l].ok
          /\ calls[l].path # calls[j].path

(***************************************************************************)
(* Properties of the search when the query of a library fails.             *)
(***************************************************************************)
\* every match the engine holds for the book, in the order they were found
FoundFor(kobo_book) ==
    IF MatchesOf(kobo_book) # <<>> THEN MatchesOf(kobo_book)
    ELSE IF ConflictsOf(kobo_book) # <<>> THEN ConflictsOf(kobo_book)[1].matches
    ELSE <<>>

PathsQueried(kobo_book) == [i \in DOMAIN QueriesFor(kobo_book) |-> QueriesFor(kobo_book)[i].path]
PathsOf(libs) == [i \in DOMAIN libs |-> libs[i].path]

\* C17: a library whose query fails counts as a library without the book:
\* match_books does not raise, the matches of each book are those the same
\* search finds when the failing libraries hold nothing, and every library
\* after a failing one is still queried (all the secondary libraries unless
\* the primary library answered with a match).
C17_QueryFailureIsNoMatch ==
    /\ (last.op = "match_books" /\ last.raised # "") =>
          (engine.kobo_books = <<>> \/ engine.libraries = <<>>)
    /\ Matching =>
          \A i \in DOMAIN engine.kobo_books :
             /\ FoundFor(engine.kobo_books[i]) =
                   find_book_across_libraries(engine.kobo_books[i], engine.library_manager,
                                              disk \ tool[1].broken, {}).matches
             /\ \A k \in DOMAIN FoundFor(engine.kobo_books[i]) :
                   FoundFor(engine.kobo_books[i])[k].library.path \notin tool[1].broken
             /\ PathsQueried(engine.kobo_books[i]) =
                   IF PrimaryMatch(engine.kobo_books[i]) # <<>> THEN PathsOf(Primary)
                   ELSE PathsOf(Primary) \o PathsOf(Secondary)

\* The query of a secondary library that holds the book fails, and the book
\* is matched in a library queried after it.
C17_Witness ==
    /\ Matching
    /\ \E i \in DOMAIN engine.kobo_books :
       \E a, b \in DOMAIN Secondary :
          /\ a < b
          /\ Secondary[a].path \in tool[1].broken \cap disk
          /\ FirstMatch(engine.kobo_books[i], StoreRecords(Secondary[a].path), Secondary[a]) # <<>>
          /\ MatchesOf(engine.kobo_books[i]) # <<>>
          /\ MatchesOf(engine.kobo_books[i])[1].library.path = Secondary[b].path
          /\ PathsQueried(engine.kobo_books[i]) = PathsOf(Primary) \o PathsOf(Secondary)

\* The query of the primary library, which holds the book, fails, and the
\* secondary libraries are searched.
C17_WitnessPrimary ==
    /\ Matching
    /\ Primary # <<>>
    /\ Primary[1].path \in tool[1].broken \cap disk
    /\ \E i \in DOMAIN engine.kobo_books :
          /\ FirstMatch(engine.kobo_books[i], StoreRecords(Primary[1].path), Primary[1]) # <<>>
          /\ MatchesOf(engine.kobo_books[i]) # <<>>
          /\ MatchesOf(engine.kobo_books[i])[1].library.path # Primary[1].path

\* the names of the libraries on which a mutating call succeeded
MutatedNames ==
    {StoreName(calls[j].path) : j \in {k \in DOMAIN calls : calls[k].op \in Mutating /\ calls[k].ok}}

\* C18: the libraries_updated of a real bulk update are exactly the
\* libraries mutated during it: a name is in the set if and only if a column
\* creation or a field write succeeded on a library of that name.
C18_UpdatedIffMutated ==
    RealUpdate => last.ret[1].libraries_updated = MutatedNames

\* A library whose columns exist and whose only match has no label, or whose
\* every write failed: reported as updated with no successful mutating call.
C18_Witness ==
    /\ RealUpdate
    /\ last.ret[1].libraries_updated # {}
    /\ MutatedNames = {}

(***************************************************************************)
(* Properties of the resolution of conflicts, dialog by dialog.            *)
(***************************************************************************)
\* pending: no dialog yet; resolved: an answer that selects; skipped: any other answer
ConflictState(g, i) ==
    IF i > Len(g.asked) THEN "pending"
    ELSE IF g.asked[i].kind \in {"all", "library"} THEN "resolved"
    ELSE "skipped"

IsPrefix(s, t) == Len(s) <= Len(t) /\ s = SubSeq(t, 1, Len(s))

\* C19: during the resolution of one run every conflict is pending, resolved
\* or skipped; a step shows at most one dialog, that of the first pending
\* conflict; a conflict that is resolved or skipped keeps its state and its
\* answer, and what it selected stays in the resolved set unchanged; the
\* list of conflicts has no conflict twice.
C19_ConflictsTerminal ==
    [][gui.pc = "dialog" =>
          /\ gui'.conflicts = gui.conflicts
          /\ \A i, j \in DOMAIN gui.conflicts : gui.conflicts[i] = gui.conflicts[j] => i = j
          /\ Len(gui'.asked) <= Len(gui.asked) + 1
          /\ Len(gui'.asked) <= Len(gui'.conflicts)
          /\ IsPrefix(gui.asked, gui'.asked)
          /\ \A i \in DOMAIN gui.conflicts :
                ConflictState(gui, i) # "pending" => ConflictState(gui', i) = ConflictState(gui, i)
          /\ IsPrefix(gui.resolved, gui'.resolved)
          /\ gui.resolved = SelectedByFirst(Len(gui.asked))
          /\ gui'.pc = "idle" =>
                /\ gui'.asked = gui.asked
                /\ gui'.resolved = gui.resolved
                /\ \A i \in DOMAIN gui.asked :
                   \A m \in Range(gui.conflicts[i].matches) :
                      m \in Range(engine'.matches) <=> m \in Range(Selected(gui.conflicts[i], gui.asked[i]))
    ]_vars

\* One conflict resolved by a selection, the next one skipped, a dialog still to come or not.
C19_Witness ==
    /\ gui.pc = "dialog"
    /\ Len(gui.conflicts) >= 2
    /\ Len(gui.asked) = 2
    /\ ConflictState(gui, 1) = "resolved"
    /\ ConflictState(gui, 2) = "skipped"
    /\ gui.resolved # <<>>

(***************************************************************************)
(* Properties of the library list of a LibraryManager.                     *)
(***************************************************************************)
Flagged == {i \in DOMAIN engine.library_manager.libraries :
               engine.library_manager.libraries[i].is_primary}

\* C20: after any sequence of discover_libraries and add_library the list
\* of libraries holds at most one library flagged primary, which is then the
\* one get_primary_library returns, whatever the number of libraries whose
\* name holds "mcr".
C20_AtMostOnePrimary ==
    /\ Cardinality(Flagged) <= 1
    /\ \A i \in Flagged :
          get_primary_library(engine.library_manager) = <<engine.library_manager.libraries[i]>>

\* Two libraries of a search and one added by hand all have "mcr" in their
\* name; the first one alone is flagged.
C20_Witness ==
    /\ last.op = "add_library"
    /\ last.ret[1]
    /\ Len(engine.library_manager.libraries) >= 3
    /\ Cardinality({i \in DOMAIN engine.library_manager.libraries :
                       IsMcr(engine.library_manager.libraries[i])}) >= 3
    /\ Flagged = {1}

(***************************************************************************)
(* Properties of the report of the unmatched books.                        *)
(***************************************************************************)
Reported == last.op = "generate_reports" /\ last.raised = "" /\ last.ret[1].unmatched # <<>>
Unlabelled(books) == {i \in DOMAIN books : books[i].collections = <<>>}

\* C21: the report of the unmatched books lists exactly the unmatched books
\* that have a label, in their order; the books without label are in the
\* unmatched list and only counted (total minus listed); when no unmatched
\* book has a label no file is written.
C21_ReportListsLabelled ==
    Reported =>
        /\ last.ret[1].unmatched[1].listed =
              SelectSeq(engine.book_matcher[1].unmatched_books, LAMBDA b : b.collections # <<>>)
        /\ last.ret[1].unmatched[1].total_unmatched = Len(engine.book_matcher[1].unmatched_books)
        /\ last.ret[1].unmatched[1].total_unmatched - Len(last.ret[1].unmatched[1].listed) =
              Cardinality(Unlabelled(engine.book_matcher[1].unmatched_books))
        /\ last.ret[1].unmatched[1].listed = <<>> => ~last.ret[1].unmatched[1].file_written

\* One unmatched book with a label is listed, another without label is only counted.
C21_Witness ==
    /\ Reported
    /\ Len(last.ret[1].unmatched[1].listed) = 1
    /\ last.ret[1].unmatched[1].total_unmatched = 2
    /\ Unlabelled(engine.book_matcher[1].unmatched_books) # {}

\* No unmatched book has a label: nothing is listed and no file is written.
C21_WitnessNoFile ==
    /\ Reported
    /\ engine.book_matcher[1].unmatched_books # <<>>
    /\ last.ret[1].unmatched[1].listed = <<>>
    /\ ~last.ret[1].unmatched[1].file_written

(***************************************************************************)
(* Properties of the normalisation: the operators the specification        *)
(* describes, written from its words.                                      *)
(***************************************************************************)
Indexes(s) == [i \in DOMAIN s |-> i]

\* lowercase; every character that is not a letter, digit or whitespace becomes a space
RefClean(s) ==
    [i \in DOMAIN s |->
        IF IsAlpha(s[i]) \/ s[i] \in DigitChars \/ IsSpace(s[i]) THEN LowerChar(s[i]) ELSE " "]

\* lowercase; characters outside \w and \s become a space
RefCleanWord(s) ==
    [i \in DOMAIN s |->
        IF IsAlpha(s[i]) \/ s[i] \in DigitChars \/ s[i] = "_" \/ IsSpace(s[i])
        THEN LowerChar(s[i]) ELSE " "]

\* whitespace runs collapse to one space: of a run, the first character is kept, as a space
RefKept(s) ==
    SelectSeq(Indexes(s), LAMBDA i : IF IsSpace(s[i]) THEN (IF i = 1 THEN TRUE ELSE ~IsSpace(s[i - 1]))
                                     ELSE TRUE)
RefCollapse(s) ==
    [k \in DOMAIN RefKept(s) |-> IF IsSpace(s[RefKept(s)[k]]) THEN " " ELSE s[RefKept(s)[k]]]

\* trimmed: from the first to the last character that is not whitespace
RefInk(s) == {i \in DOMAIN s : ~IsSpace(s[i])}
RefTrim(s) ==
    IF RefInk(s) = {} THEN <<>>
    ELSE SubSeq(s, CHOOSE i \in RefInk(s) : \A j \in RefInk(s) : i <= j,
                   CHOOSE i \in RefInk(s) : \A j \in RefInk(s) : i >= j)

\* at most one leading article: 'the ', 'a ', 'an ' tried in that order
RefArticle(s) ==
    IF Len(s) >= 4 /\ SubSeq(s, 1, 4) = <<"t","h","e"," ">> THEN SubSeq(s, 5, Len(s))
    ELSE IF Len(s) >= 2 /\ SubSeq(s, 1, 2) = <<"a"," ">> THEN SubSeq(s, 3, Len(s))
    ELSE IF Len(s) >= 3 /\ SubSeq(s, 1, 3) = <<"a","n"," ">> THEN SubSeq(s, 4, Len(s))
    ELSE s

RefTitle(s) == RefTrim(RefArticle(RefCollapse(RefClean(s))))
RefTitleWord(s) == RefTrim(RefArticle(RefCollapse(RefCleanWord(s))))

TitleGiven == engine.kobo_books[1].title
AuthorGiven == engine.kobo_books[1].author

\* C22: normalize_title equals the reference operator on every title:
\* lowercase, every character that is not a letter, digit or whitespace to a
\* space, whitespace runs to one space, at most one leading article cut,
\* trimmed; "The Desert Here and the Desert Far Away" gives "desert here and
\* the desert far away".
C22_TitleIsReference ==
    last.op = "normalize_title" =>
        /\ last.ret[1] = RefTitle(TitleGiven)
        /\ TitleGiven = TheDesert => last.ret[1] = SubSeq(Lower(TheDesert), 5, Len(TheDesert))

\* A title with an underscore: kept by the code, a space in the reference.
C22_Witness ==
    /\ last.op = "normalize_title"
    /\ TitleGiven = <<"T", "_", "7">>
    /\ last.ret[1] = <<"t", "_", "7">>
    /\ RefTitle(TitleGiven) = <<"t", " ", "7">>

\* What holds instead: normalize_title is the reference operator in which
\* the underscore counts as a letter.
C22_TitleIsReferenceWord ==
    last.op = "normalize_title" =>
        /\ last.ret[1] = RefTitleWord(TitleGiven)
        /\ TitleGiven = TheDesert => last.ret[1] = SubSeq(Lower(TheDesert), 5, Len(TheDesert))

\* the parts between the commas of a string
CommaAt(s) == SelectSeq(Indexes(s), LAMBDA i : s[i] = ",")
RefPart(s, k) ==
    SubSeq(s, IF k = 1 THEN 1 ELSE CommaAt(s)[k - 1] + 1,
              IF k > Len(CommaAt(s)) THEN Len(s) ELSE CommaAt(s)[k] - 1)

\* 'Last, First' to 'first last' when there is exactly one comma
RefReorder(s) ==
    IF Len(CommaAt(s)) = 1 THEN RefTrim(RefPart(s, 2)) \o <<" ">> \o RefTrim(RefPart(s, 1))
    ELSE s

\* lowercase, collapse whitespace, reorder
RefAuthor(s) == RefReorder(RefCollapse(Lower(s)))

\* lowercase, trim, collapse whitespace, reorder
RefAuthorTrimmed(s) == RefReorder(RefCollapse(RefTrim(Lower(s))))

\* C23, as stated: normalize_author gives, for a string with exactly one
\* comma, the lowercased, whitespace-collapsed 'F L', and for any other
\* string the string only lowercased and whitespace-collapsed; "Smith, Jane"
\* gives "jane smith", as "Jane Smith" does.
C23_AuthorIsReference ==
    last.op = "normalize_author" =>
        /\ last.ret[1] = RefAuthor(AuthorGiven)
        /\ AuthorGiven \in {Authors.smith_jane, Authors.jane_smith} =>
              last.ret[1] = Lower(Authors.jane_smith)

\* C23, amended: the same with the string trimmed first, so that a string
\* without comma is lowercased, trimmed and whitespace-collapsed.
C23_AuthorIsReferenceTrimmed ==
    last.op = "normalize_author" =>
        /\ last.ret[1] = RefAuthorTrimmed(AuthorGiven)
        /\ AuthorGiven \in {Authors.smith_jane, Authors.jane_smith} =>
              last.ret[1] = Lower(Authors.jane_smith)

\* "Smith, Jane" gives "jane smith".
C23_Witness ==
    /\ last.op = "normalize_author"
    /\ AuthorGiven = Authors.smith_jane
    /\ last.ret[1] = <<"j","a","n","e"," ","s","m","i","t","h">>

(***************************************************************************)
(* Properties of the partition of the matches in a real bulk update.       *)
(***************************************************************************)
\* the partitions of bulk_update: the matches under each key of by_library
Partitions == {by_library(engine.matches, engine.matches[k].library.name) : k \in DOMAIN engine.matches}

PreparedBefore(j, op) ==
    \E i \in 1..(j - 1) : calls[i].op = op /\ calls[i].ok /\ calls[i].path = calls[j].path

\* C24: bulk_update partitions the matches by library: the matches of a
\* partition all have the same library (the same location), and every field
\* write is made on a library that was probed and backed up, and whose
\* columns were provided, earlier in the same call, also when two libraries
\* at different locations have the same name.
C24_PartitionByStore ==
    RealUpdate =>
        /\ \A part \in Partitions :
           \A a, b \in Range(part) : a.library.path = b.library.path
        /\ \A j \in DOMAIN calls :
              calls[j].op = "set_metadata" =>
                 /\ PreparedBefore(j, "probe")
                 /\ PreparedBefore(j, "backup")
                 /\ {"myratings", "my_genres"} \subseteq cols[calls[j].path]

\* Two libraries named alike in one partition: the field of a record is
\* written in a library that was never probed.
C24_Witness ==
    /\ RealUpdate
    /\ \E part \in Partitions :
       \E a, b \in Range(part) : a.library.path # b.library.path
    /\ \E j \in DOMAIN calls :
          /\ calls[j].op = "set_metadata"
          /\ \A i \in DOMAIN calls : calls[i].op = "probe" => calls[i].path # calls[j].path

(***************************************************************************)
(* Properties of the threads of the window.                                *)
(***************************************************************************)
\* the sync threads that write: those of a real sync
Writers == {i \in DOMAIN gui.syncing : ~gui.syncing[i]}

\* C25: at most one run_sync is in progress at any time: whatever the
\* clicks and the callbacks, no second sync thread starts before the first
\* has ended, so no library has two writers at once.
C25_OneSyncAtATime ==
    /\ Len(gui.syncing) <= 1
    /\ Cardinality(Writers) <= 1

\* Two real syncs run at once, the second started from the button that the
\* callback of a discovery enabled.
C25_Witness ==
    /\ Len(gui.syncing) = 2
    /\ Cardinality(Writers) = 2
    /\ gui.pending = <<>>
    /\ gui.discover_btn

(***************************************************************************)
(* Properties of the vocabulary of rating names.                           *)
(***************************************************************************)
\* a label without the marker "| ", in lower case
UnmarkedName(label) == Lower(Strip(Remove(label, <<"|"," ">>)))

\* the names the two lists of the code hold, markers taken off
RecognizedNames == {UnmarkedName(pat) : pat \in rating_patterns} \cup GenreExcluded

CanonicalName(name) ==
    IF name = <<"f","a","v","o","r","i","t","e">> THEN Literals.favorites
    ELSE IF name = <<"g","o","o","d">> THEN Literals.great
    ELSE Title(name)

\* C26: a label that equals a rating name, in any case and with or without
\* the marker "| ", is classified as a rating under its canonical name:
\* "good" gives "Great" marked or not.
C26_RatingNamesClassified ==
    last.op = "classify" =>
        \A i \in DOMAIN Tags :
            UnmarkedName(Tags[i]) \in RecognizedNames =>
                _get_rating_collections(<<Tags[i]>>) = <<CanonicalName(UnmarkedName(Tags[i]))>>

\* "| Good" and "Good" on one book: the marked shelf alone gives a rating.
C26_Witness ==
    /\ last.op = "classify"
    /\ Tags = <<Shelves.good, Shelves.plain_good>>
    /\ last.ret[1].ratings = <<Literals.great>>

(***************************************************************************)
(* Properties of the field writes of one match.                            *)
(***************************************************************************)
\* the field writes update_book_metadata issued for a column
ColumnWrites(column) ==
    {j \in DOMAIN calls : calls[j].op = "set_metadata" /\ calls[j].column = column}

IssuedFor(column, values) ==
    Cardinality(ColumnWrites(column)) = IF values # <<>> THEN 1 ELSE 0

\* C27: update_book_metadata issues exactly one field write for each label
\* set that is not empty and none for an empty one: the genres are written
\* whenever the book has a genre, whether the ratings write succeeded or not.
C27_OneWritePerLabelSet ==
    last.op = "update_book_metadata" =>
        /\ IssuedFor("myratings", _get_rating_collections(Tags))
        /\ IssuedFor("my_genres", _get_genre_collections(Tags))

\* A book with one rating and one genre whose ratings write fails: the
\* update ends there, with no write of the genres.
C27_Witness ==
    /\ last.op = "update_book_metadata"
    /\ Tags = <<Shelves.evergreen, Shelves.sweet_fluff>>
    /\ RatingsWriteFails
    /\ last.ret = <<FALSE>>
    /\ calls = <<FieldWrite("myratings", <<Literals.evergreen>>, FALSE)>>

(***************************************************************************)
(* Properties of the statistics of a bulk update.                          *)
(***************************************************************************)
\* C28: after a bulk update, whatever the probes, the backups, the column
\* creations and the field writes did, the successful and the failed
\* matches add up to the total, which is the number of matches handed in.
C28_EveryMatchCountedOnce ==
    RealUpdate =>
        /\ last.ret[1].total = Len(engine.matches)
        /\ last.ret[1].successful + last.ret[1].failed = last.ret[1].total
        /\ last.ret[1].successful >= 0
        /\ last.ret[1].failed >= 0

\* Three matches, two of them in a library that was left out as a whole
\* after a failed step, the third written.
C28_Witness ==
    /\ RealUpdate
    /\ last.ret[1].total = 3
    /\ last.ret[1].successful = 1
    /\ last.ret[1].failed = 2
    /\ \E j \in DOMAIN calls :
          /\ calls[j].op \in {"probe", "backup", "add_custom_column"}
          /\ ~calls[j].ok
          /\ Cardinality({k \in DOMAIN engine.matches :
                             engine.matches[k].library.path = calls[j].path}) = 2
          /\ \A k \in DOMAIN calls : calls[k].op = "set_metadata" => calls[k].path # calls[j].path

(***************************************************************************)
(* Properties of the primary library over repeated searches.               *)
(***************************************************************************)
Current == engine.library_manager.libraries

\* C29: after a discover_libraries, get_primary_library is none or a
\* flagged library of the list of that search, the primary and the
\* secondary libraries together are the list, and no primary of an earlier
\* search is kept when this one flagged none.
C29_PrimaryOfLatestSearch ==
    last.op = "discover_libraries" =>
        /\ \A p \in Range(get_primary_library(engine.library_manager)) :
              \E i \in Flagged : Current[i] = p
        /\ Range(get_primary_library(engine.library_manager))
              \cup Range(get_secondary_libraries(engine.library_manager)) = Range(Current)
        /\ Flagged = {} => get_primary_library(engine.library_manager) = <<>>

\* A search that finds libraries and flags none, the directory of the
\* primary of an earlier search among them under another name.
C29_Witness ==
    /\ last.op = "discover_libraries"
    /\ Current # <<>>
    /\ Flagged = {}
    /\ get_primary_library(engine.library_manager) # <<>>
    /\ \E i \in DOMAIN Current :
          /\ Current[i].path = get_primary_library(engine.library_manager)[1].path
          /\ Current[i].name = Names.books
          /\ get_primary_library(engine.library_manager)[1].name = Names.mcr

(***************************************************************************)
(* Properties of the conflict counts the window shows.                     *)
(***************************************************************************)
\* _on_sync_complete has shown the results of a run that had conflicts
ResultsShown == gui.pc = "idle" /\ gui.results # <<>> /\ gui.conflicts # <<>>

\* "Conflicts remaining" and "Conflicts resolved" of the results text;
\* conflicts_count, read before the resolution, is len(conflicts)
RemainingShown == gui.results[1].conflicts_count
ResolvedShown == Len(gui.conflicts) - RemainingShown

\* the conflicts no match was selected for: answered "skip", answered OK
\* with no choice, or not asked after "skip all"
Unselected ==
    {k \in DOMAIN gui.conflicts :
        IF k \in DOMAIN gui.asked THEN gui.asked[k].kind \in {"skip", "none", "skip_all"}
        ELSE TRUE}

\* C30: after the conflict resolution the number of remaining conflicts
\* shown is the number of conflicts no match was selected for, never below
\* zero, and the number of resolved conflicts shown is at most the number of
\* conflicts, whatever the answers were.
C30_ConflictCounts ==
    ResultsShown =>
        /\ RemainingShown = Cardinality(Unselected)
        /\ RemainingShown >= 0
        /\ ResolvedShown <= Len(gui.conflicts)

\* One conflict of two matches answered "all": minus one conflict remains
\* and two of one are resolved.
C30_Witness ==
    /\ ResultsShown
    /\ Len(gui.conflicts) = 1
    /\ Len(gui.conflicts[1].matches) = 2
    /\ gui.asked = <<Action("all", 0)>>
    /\ RemainingShown = -1
    /\ ResolvedShown = 2

(***************************************************************************)
(* Properties of the checks of a dry run.                                  *)
(***************************************************************************)
\* the dry-run updates that returned statistics
DryRunReturned == last.op = "update_calibre_metadata" /\ last.dry_run /\ last.raised = ""

\* C33: in dry-run mode the update stage still probes, as a read-only
\* check, the library of every match before it reports its statistics.
C33_DryRunProbes ==
    DryRunReturned =>
        \A k \in DOMAIN engine.matches :
           \E j \in DOMAIN calls :
              /\ calls[j].op = "probe"
              /\ calls[j].path = engine.matches[k].library.path

\* A dry run over matches in two libraries reports both libraries as
\* updated without a single call.
C33_Witness ==
    /\ DryRunReturned
    /\ \E k, l \in DOMAIN engine.matches :
          engine.matches[k].library.path # engine.matches[l].library.path
    /\ last.ret[1].successful = Len(engine.matches)
    /\ Cardinality(last.ret[1].libraries_updated) >= 2
    /\ calls = <<>>

(***************************************************************************)
(* Properties of the search of one library.                                *)
(***************************************************************************)
\* the matches of a matching pass, those of the conflicts after the matched list
RECURSIVE ConflictMatches(_)
ConflictMatches(conflicts) ==
    IF conflicts = <<>> THEN <<>>
    ELSE Head(conflicts).matches \o ConflictMatches(Tail(conflicts))
Found == engine.matches \o ConflictMatches(engine.conflicts)

\* the rows of the library of a match that satisfy the equality
EqualRows(match) ==
    {i \in DOMAIN StoreRecords(match.library.path) :
        IsExactMatch(match.kobo_book, StoreRecords(match.library.path)[i])}

\* C34: a library contributes at most one match for a book, and that match
\* is for the first of its records, in the order of the query, that
\* satisfies the normalized equality; so no conflict holds two matches of
\* one library.
C34_FirstRecordOnly ==
    Matching =>
        /\ \A k \in DOMAIN Found :
              /\ EqualRows(Found[k]) # {}
              /\ \A i \in EqualRows(Found[k]) :
                    (\A j \in EqualRows(Found[k]) : i <= j) =>
                       /\ Found[k].calibre_book_id = StoreRecords(Found[k].library.path)[i].id
                       /\ Found[k].calibre_title = StoreRecords(Found[k].library.path)[i].title
        /\ \A k, l \in DOMAIN Found :
              (/\ Found[k].kobo_book.content_id = Found[l].kobo_book.content_id
               /\ Found[k].library.path = Found[l].library.path) => k = l

\* A library with two records that equal the book after normalization:
\* the match is for the first of them.
C34_Witness ==
    /\ Matching
    /\ \E k \in DOMAIN Found :
          /\ Cardinality(EqualRows(Found[k])) >= 2
          /\ \A i \in EqualRows(Found[k]) :
                StoreRecords(Found[k].library.path)[i].id >= Found[k].calibre_book_id

(***************************************************************************)
(* Properties of the conflicts of a matching pass.                         *)
(***************************************************************************)
\* C35: every conflict of match_all_books holds two matches or more, all of
\* the book of the conflict, each in another library, none in the primary
\* library.
C35_ConflictShape ==
    Matching =>
        \A c \in DOMAIN engine.conflicts :
           /\ Len(engine.conflicts[c].matches) >= 2
           /\ \A k \in DOMAIN engine.conflicts[c].matches :
                 /\ engine.conflicts[c].matches[k].kobo_book = engine.conflicts[c].kobo_book
                 /\ ~engine.conflicts[c].matches[k].library.is_primary
                 /\ \A p \in Range(Primary) :
                       engine.conflicts[c].matches[k].library.path # p.path
                 /\ \A l \in DOMAIN engine.conflicts[c].matches :
                       engine.conflicts[c].matches[k].library.path
                          = engine.conflicts[c].matches[l].library.path => k = l

\* With a primary library that does not hold the book, a conflict of two
\* matches or more in the secondary libraries.
C35_Witness ==
    /\ Matching
    /\ Primary # <<>>
    /\ \E c \in DOMAIN engine.conflicts :
          /\ Len(engine.conflicts[c].matches) >= 2
          /\ PrimaryMatch(engine.conflicts[c].kobo_book) = <<>>

(***************************************************************************)
(* Properties of the order of the stages within run_sync.                  *)
(***************************************************************************)
\* the step is a run_sync started by the window
SyncStep == gui.pc = "idle" /\ gui'.pc # "idle" /\ last'.op = "run_sync"

\* the stage did not run: what it assigns is as before the call
NotLoaded == engine'.kobo_reader = engine.kobo_reader /\ engine'.kobo_books = engine.kobo_books
NotMatched ==
    /\ engine'.book_matcher = engine.book_matcher
    /\ engine'.matches = engine.matches
    /\ engine'.unmatched_books = engine.unmatched_books
    /\ engine'.conflicts = engine.conflicts
    /\ queries' = <<>>
NotUpdated == calls' = <<>> /\ cols' = cols /\ last'.updated = <<>>
NotReported == last'.ret = <<>>

\* C32: run_sync runs discover (only when the engine knows no library),
\* load, match, update and generate_reports in this order: the exception of
\* a stage leaves every later stage not run, each stage works on what the
\* stage before it left, and no conflict is resolved: the books in conflict
\* have no match in the matched list nor among the matches handed to the update.
C32_StagesInOrder ==
    [][SyncStep =>
          /\ last'.raised \in {"", ErrNoLibraries, ErrNoDatabase, ErrNoBooks, ErrMatchFirst}
          /\ engine.libraries # <<>> => engine'.library_manager = engine.library_manager
          /\ last'.raised = ErrNoLibraries <=> engine'.libraries = <<>>
          /\ last'.raised = ErrNoLibraries =>
                NotLoaded /\ NotMatched /\ NotUpdated /\ NotReported
          /\ last'.raised \in {ErrNoDatabase, ErrNoBooks} =>
                /\ engine'.kobo_reader
                /\ NotMatched /\ NotUpdated /\ NotReported
          /\ last'.raised \in {"", ErrMatchFirst} =>
                /\ engine'.kobo_books = get_books_with_collections(kobo_db)
                /\ engine'.book_matcher # <<>>
                /\ Len(engine'.matches) + Len(engine'.unmatched_books) + Len(engine'.conflicts)
                      = Len(engine'.kobo_books)
          /\ last'.raised = ErrMatchFirst =>
                /\ ~last'.dry_run
                /\ engine'.matches = <<>>
                /\ NotUpdated /\ NotReported
          /\ last'.raised = "" =>
                /\ last'.updated = engine'.matches
                /\ last'.ret[1].stats.total = Len(engine'.matches)
                /\ last'.ret[1].reports.summary.matched = Len(engine'.matches)
                /\ last'.ret[1].conflicts_count = Len(engine'.conflicts)
                /\ \A c \in DOMAIN engine'.conflicts :
                   \A m \in DOMAIN engine'.matches :
                      engine'.matches[m].kobo_book.content_id
                         # engine'.conflicts[c].kobo_book.content_id
      ]_vars

\* A run that went through every stage and left a conflict unresolved.
C32_Witness ==
    /\ gui.pc = "complete"
    /\ last.op = "run_sync"
    /\ last.raised = ""
    /\ engine.conflicts # <<>>
    /\ engine.matches # <<>>
    /\ last.updated = engine.matches
    /\ calls # <<>>

\* A run that the load stage ended: no query and no call was made.
C32_WitnessLoadFails ==
    /\ gui.pc = "error"
    /\ last.op = "run_sync"
    /\ last.raised = ErrNoBooks
    /\ engine.libraries # <<>>
    /\ queries = <<>>
    /\ calls = <<>>

(***************************************************************************)
(* Properties of the engine the window resolves conflicts on.              *)
(***************************************************************************)
\* _on_sync_complete has run on results that count conflicts
Resolving == last.op = "_on_sync_complete" /\ last.ret[1].results[1].conflicts_count > 0

\* C36: when the callback of a sync resolves conflicts, the conflicts it
\* offers and the engine it hands the resolved matches to are those of the
\* SyncEngine the run_sync of that callback ran on, however a discovery
\* that replaces self.sync_engine is interleaved with the sync.
C36_ResolvedOnTheEngineOfTheRun ==
    Resolving =>
        /\ last.ret[1].sync_engine = last.ret[1].ran_on
        /\ Len(last.ret[1].conflicts) = last.ret[1].results[1].conflicts_count

\* The run found a conflict on the first engine; a discovery replaced the
\* engine before the callback ran, which offers the conflicts of the new
\* engine: none, and the user is not asked.
C36_Witness ==
    /\ Resolving
    /\ last.ret[1].ran_on = 1
    /\ last.ret[1].sync_engine = 2
    /\ gui.engines[1].conflicts # <<>>
    /\ last.ret[1].conflicts = <<>>
    /\ last.ret[1].asked = <<>>

(***************************************************************************)
(* Properties of the matched list of an engine.                            *)
(***************************************************************************)
\* the pairs of positions of a matched list that hold a match of the same
\* book in the same library
Doubles(matches) ==
    {<<k, l>> \in (DOMAIN matches) \X (DOMAIN matches) :
        /\ k < l
        /\ matches[k].kobo_book.content_id = matches[l].kobo_book.content_id
        /\ matches[k].library.path = matches[l].library.path}

\* C31: the matched list of an engine never holds two matches of the same
\* book in the same library, whatever match_books and
\* apply_conflict_resolutions calls the window has made on it.
C31_NoMatchTwice ==
    \A e \in DOMAIN gui.engines : Doubles(gui.engines[e].matches) = {}

\* Two syncs ran on one engine before the callback of the first: each
\* callback offered the conflict of the engine and the same library was
\* chosen twice.
C31_Witness ==
    /\ last.op = "_on_sync_complete"
    /\ last.ret[1].sync_engine = last.ret[1].ran_on
    /\ Len(last.ret[1].conflicts) = 1
    /\ last.ret[1].asked = <<Action("library", 0)>>
    /\ Doubles(gui.engines[last.ret[1].sync_engine].matches) # {}

\* In the window that runs one sync at a time (SpecGui, SpecDialogs) the
\* matched list of the engine has no double.
C31_NoMatchTwiceOneSync == Doubles(engine.matches) = {}

====
